---- MODULE Spec2Model ----
(***************************************************************************)
(* A model of the walkabout traversal engine (engine.Execute): an          *)
(* iterative visitor over a typed object graph with an explicit stack,     *)
(* cycle detection and copy-on-write reconstruction of replaced values.    *)
(*                                                                         *)
(* Memory is a sequence of words; a handle (engine.Ptr) is an index into   *)
(* it and 0 is the nil handle.  A word is a pair: a pointer is <<a, 0>>,   *)
(* a slice header <<data, len>>, an interface <<type id, data>> and a      *)
(* scalar <<v, 0>>.  A struct occupies SizeOf consecutive words and its    *)
(* fields live at the struct's handle plus the field's offset.             *)
(***************************************************************************)
EXTENDS Integers, Sequences, FiniteSets, TLC

VARIABLES
  mem,        \* the heap: Seq of words
  mem0,       \* the heap as it was handed to Execute
  stack,      \* the frames of this Execute call, bottom first
  pc,         \* the label Execute is at: enter, unwind, nextSlot, done, panic
  halting,    \* Execute's local: the user asked to stop
  returning,  \* Execute's local: the frame that was just completed
  result,     \* what Execute returned: retType, ret, changed, err
  log,        \* every callback invocation so far, with the decision it returned
  entered,    \* the path of every slot that control reached at the enter label,
              \* with the slot count of its frame
  allocs,     \* handles of the values Execute built while unwinding
  sched,      \* the Execute calls in progress on this Engine: which one is
              \* running, the locals of those that are not, their callbacks
  build,      \* a call of New: the type map given, the Engine's copy of it,
              \* and where its loop is
  str,        \* a call of Stringify: its id, td and ret, and where it is
  gen,        \* runs of the code generator over one view of the types
  oracle,     \* a ts.Oracle: its data map, the Ts it made, the Get calls so far
  view        \* a pass over the types of a package: of NewView's chaseTraversable
              \* or of TraversableSet.ShouldTraverse

vars ==
  <<mem, mem0, stack, pc, halting, returning, result, log, entered, allocs, sched, build,
    str, gen, oracle, view>>

------------------------------------------------------------------------------
(* Bounds of the model. *)

\* How many decisions of one run may carry a replacement.
MaxReplace == 2
\* How many times in one run a decision of the walker function or of a post
\* callback may register a post-visit function, register an intercept function
\* or carry an action list; an intercept handing over to another is not counted.
MaxExtras == 2
\* The deepest stack the model follows; no run of Execute over Graphs gets there.
MaxDepth == 12
\* The ids a type map given to New registers at most: 1..MaxTypes.
MaxTypes == 2
\* The fields of a struct descriptor given to New, at most.
MaxFields == 1
\* The glyphs Stringify is followed for: more than any chain of distinct pointer
\* and slice descriptors has.
MaxLevels == 4

------------------------------------------------------------------------------
(* The descriptor table: a reduced copy of the demo's generated type map. *)

TargetTypeContainerTypePtr == 3
TargetTypeByRefType == 7
TargetTypeContainerType == 9
TargetTypeTarget == 12
TargetTypeTargetSlice == 20

KindPointer == "KindPointer"
KindStruct == "KindStruct"
KindSlice == "KindSlice"
KindInterface == "KindInterface"

\* The nil handle, the zero TypeID, a nil func value and a nil error.
Nil == 0
NoFn == "nil"
NoErr == "nil"

TypeMap ==
  [id \in {TargetTypeContainerTypePtr, TargetTypeByRefType, TargetTypeContainerType,
           TargetTypeTarget, TargetTypeTargetSlice} |->
    CASE id = TargetTypeContainerTypePtr ->
           [TypeID |-> id, Kind |-> KindPointer, Elem |-> TargetTypeContainerType,
            Fields |-> <<>>, SizeOf |-> 1, Name |-> ""]
      [] id = TargetTypeByRefType ->
           [TypeID |-> id, Kind |-> KindStruct, Elem |-> 0,
            Fields |-> <<>>, SizeOf |-> 1, Name |-> "ByRefType"]
      [] id = TargetTypeContainerType ->
           [TypeID |-> id, Kind |-> KindStruct, Elem |-> 0,
            Fields |-> << [Name |-> "Container", Offset |-> 0,
                           Target |-> TargetTypeContainerTypePtr],
                          [Name |-> "AnotherTarget", Offset |-> 1,
                           Target |-> TargetTypeTarget],
                          [Name |-> "TargetSlice", Offset |-> 2,
                           Target |-> TargetTypeTargetSlice] >>,
            SizeOf |-> 4, Name |-> "ContainerType"]
      [] id = TargetTypeTarget ->
           [TypeID |-> id, Kind |-> KindInterface, Elem |-> 0,
            Fields |-> <<>>, SizeOf |-> 1, Name |-> "Target"]
      [] id = TargetTypeTargetSlice ->
           [TypeID |-> id, Kind |-> KindSlice, Elem |-> TargetTypeTarget,
            Fields |-> <<>>, SizeOf |-> 1, Name |-> ""] ]

\* Engine.typeData: the descriptor registered under an id.
typeData(id) == TypeMap[id]

------------------------------------------------------------------------------
(* Memory. *)

NilW == <<0, 0>>
PtrW(a) == <<a, 0>>
IfaceW(t, a) == <<t, a>>
SliceW(a, n) == <<a, n>>
ValW(v) == <<v, 0>>

\* TypeData.Copy: assign the SizeOf(id) words at from to the words at dest.
Copy(m, id, dest, from) ==
  [a \in DOMAIN m |->
     IF a >= dest /\ a < dest + TypeMap[id].SizeOf THEN m[from + (a - dest)] ELSE m[a]]

\* A fresh zeroed allocation of n words is placed at Len(m) + 1.
Zeros(n) == [i \in 1..n |-> NilW]

\* TypeData.IntfType: the id of the dynamic type held by the interface at x.
IntfType(m, x) == m[x][1]

\* One word of a ContainerType holds the fields that are not traversable.
ValOffset == 3

ContainerWords(c, t, s, v) == <<PtrW(c), t, s, ValW(v)>>

\* The object graphs handed to Execute; the root ContainerType is at handle 1.
Graphs == {"chain", "cycle", "slice", "fork"}

GraphMem(g) ==
  CASE g = "chain" ->
         \* A@1 -> B@5 -> C@9 through Container
         ContainerWords(5, NilW, NilW, 1)
           \o ContainerWords(9, NilW, NilW, 2)
           \o ContainerWords(0, NilW, NilW, 3)
    [] g = "cycle" ->
         \* A@1 -> B@5, B.Container -> A and B.AnotherTarget holds B itself
         ContainerWords(5, NilW, NilW, 1)
           \o ContainerWords(1, IfaceW(TargetTypeContainerType, 5), NilW, 2)
    [] g = "slice" ->
         \* A.TargetSlice = [*ByRefType@12, *ContainerType B@5, nil] stored at 9..11
         ContainerWords(0, NilW, SliceW(9, 3), 1)
           \o ContainerWords(0, NilW, NilW, 2)
           \o <<IfaceW(TargetTypeByRefType, 12), IfaceW(TargetTypeContainerType, 5), NilW>>
           \o <<ValW(7)>>
    [] g = "fork" ->
         \* A.Container -> B@5 and A.AnotherTarget holds *ByRefType@9
         ContainerWords(5, IfaceW(TargetTypeByRefType, 9), NilW, 1)
           \o ContainerWords(0, NilW, NilW, 2)
           \o <<ValW(7)>>

RootHandle == 1
RootType == TargetTypeContainerType

------------------------------------------------------------------------------
(* Actions (slots), decisions and frames. *)

fixedSlotCount == 16

ZeroAction ==
  [call |-> NoFn, dirty |-> FALSE, post |-> NoFn, replaced |-> FALSE,
   typeData |-> 0, value |-> Nil, valueType |-> 0, assignableTo |-> 0]

\* Context.ActionVisitReplace: visit value as type td; a replacement must fit assignableTo.
ActionVisitReplace(td, value, assignableTo) ==
  [ZeroAction EXCEPT !.typeData = td, !.value = value, !.valueType = td,
                     !.assignableTo = assignableTo]

\* Context.ActionVisitTypeID: visit the value of the given type id.
ActionVisitTypeID(id, value) ==
  [ZeroAction EXCEPT !.value = value, !.valueType = id]

\* Context.ActionCall: invoke a side-effect function; no value is associated.
ActionCall(fn) == [ZeroAction EXCEPT !.call = fn]

\* The zero Decision means "continue".
ZeroDecision ==
  [err |-> NoErr, halt |-> FALSE, skip |-> FALSE, hasActions |-> FALSE, actions |-> <<>>,
   replacement |-> Nil, replacementType |-> 0, post |-> NoFn, intercept |-> NoFn]

ContextContinue == ZeroDecision
ContextError(e) == [ZeroDecision EXCEPT !.err = e]
ContextHalt == [ZeroDecision EXCEPT !.halt = TRUE]
ContextSkip == [ZeroDecision EXCEPT !.skip = TRUE]
ContextActions(as) == [ZeroDecision EXCEPT !.hasActions = TRUE, !.actions = as]

DecisionIntercept(d, fn) == [d EXCEPT !.intercept = fn]
DecisionPost(d, fn) == [d EXCEPT !.post = fn]
\* Replace substitutes the value outright; its children are not visited.
DecisionReplace(d, id, x) ==
  [d EXCEPT !.replacement = x, !.replacementType = id, !.skip = TRUE]

\* Action.apply: fold a decision into the slot; the result is the slot, or the error.
apply(a, d) ==
  IF d.err # NoErr THEN [err |-> d.err, slot |-> a]
  ELSE LET a1 == IF d.replacement # Nil
                 THEN [a EXCEPT !.value = d.replacement, !.typeData = d.replacementType,
                                !.dirty = TRUE, !.replaced = TRUE]
                 ELSE a
           a2 == IF d.post # NoFn THEN [a1 EXCEPT !.post = d.post] ELSE a1
       IN [err |-> NoErr, slot |-> a2]

\* frame.Slot: the inline array holds fixedSlotCount slots, zero until they are set
\* (Slots keeps the ones set so far); the slots beyond it live in Overflow.
Slot(f, idx) ==
  IF idx < fixedSlotCount
  THEN IF idx < Len(f.Slots) THEN f.Slots[idx + 1] ELSE ZeroAction
  ELSE f.Overflow[idx - fixedSlotCount + 1]

\* The slots beyond the inline array wrapped around into it.
StoreSlotWrapped(f, idx, a) ==
  [f EXCEPT !.Slots[(idx % fixedSlotCount) + 1] = a]

\* *f.Slot(idx) = a
StoreSlot(f, idx, a) ==
  IF idx < fixedSlotCount
  THEN [f EXCEPT !.Slots[idx + 1] = a]
  ELSE [f EXCEPT !.Overflow[idx - fixedSlotCount + 1] = a]

\* frame.Active: the slot at Idx.
Active(f) == Slot(f, f.Idx)

\* frame.Zero: Slot(0).
Zero(f) == Slot(f, 0)

\* frame.SetSlot: install an action, resolving its type descriptor if it has none.
SetSlot(action) ==
  IF action.typeData = 0 THEN [action EXCEPT !.typeData = action.valueType] ELSE action

\* stack.Enter followed by SetSlot for each of the given actions.
NewFrameDropsIntercept(intercept, actions) ==
  LET n == Len(actions)
      inline == IF n < fixedSlotCount THEN n ELSE fixedSlotCount
  IN [Count |-> n, Idx |-> 0, Intercept |-> NoFn,
      Slots |-> [i \in 1..inline |-> SetSlot(actions[i])],
      Overflow |-> [i \in 1..(n - inline) |-> SetSlot(actions[fixedSlotCount + i])]]

NewFrame(intercept, actions) ==
  LET n == Len(actions)
      inline == IF n < fixedSlotCount THEN n ELSE fixedSlotCount
  IN [Count |-> n, Idx |-> 0, Intercept |-> intercept,
      Slots |-> [i \in 1..inline |-> SetSlot(actions[i])],
      Overflow |-> [i \in 1..(n - inline) |-> SetSlot(actions[fixedSlotCount + i])]]

\* var returning *frame: no frame was completed yet.
NoFrame == [Count |-> 0, Idx |-> 0, Intercept |-> NoFn, Slots |-> <<>>, Overflow |-> <<>>]

------------------------------------------------------------------------------
(* The state of the running Execute call. *)

CurFrame == stack[Len(stack)]
CurSlot == Active(CurFrame)

\* The position of the current slot: the Idx of every frame, bottom first.
Path == [i \in 1..Len(stack) |-> stack[i].Idx]

\* The stack with the current slot replaced by s.
WithSlot(st, s) ==
  [st EXCEPT ![Len(st)] = StoreSlot(@, @.Idx, s)]

Event(kind, fn, a, d) ==
  [kind |-> kind, fn |-> fn, path |-> Path, typeID |-> a.typeData, value |-> a.value,
   d |-> d]

------------------------------------------------------------------------------
(* The callbacks: what user code may return from a facade call. *)

Replaces(l) == Cardinality({i \in DOMAIN l : l[i].d.replacement # Nil})
Posts(l) == Cardinality({i \in DOMAIN l : l[i].d.post # NoFn})
Intercepts(l) ==
  Cardinality({i \in DOMAIN l : l[i].kind = "visit" /\ l[i].d.intercept # NoFn})
ActionLists(l) == Cardinality({i \in DOMAIN l : l[i].d.hasActions})

ActionKinds == {"actionsRev", "actionsCall", "actionsEmpty"}

Extras(c) ==
  (IF c.post THEN 1 ELSE 0) + (IF c.icpt = "icptA" THEN 1 ELSE 0)
    + (IF c.k \in ActionKinds THEN 1 ELSE 0)

Allowed(c, l) ==
  /\ c.k = "replace" => Replaces(l) < MaxReplace
  /\ Posts(l) + Intercepts(l) + ActionLists(l) + Extras(c) <= MaxExtras

\* The user's walker function.
VisitChoices(l) ==
  {c \in [k : {"continue", "skip", "halt", "error", "replace"} \cup ActionKinds,
          post : BOOLEAN, icpt : {NoFn, "icptA"}] : Allowed(c, l)}

\* A function registered with Decision.Intercept.
InterceptChoices(l) ==
  {c \in [k : {"continue", "halt", "error", "replace"},
          post : {FALSE}, icpt : {NoFn, "icptB"}] : Allowed(c, l)}

\* A function registered with Decision.Post.
PostChoices(l) ==
  {c \in [k : {"continue", "skip", "halt", "error", "replace", "actionsRev"},
          post : {FALSE}, icpt : {NoFn}] : Allowed(c, l)}

NoChoice == [k |-> "none", post |-> FALSE, icpt |-> NoFn]

\* The value a callback builds to replace the struct x: a copy with another scalar.
ReplacementWords(m, id, x) ==
  IF id = TargetTypeContainerType
  THEN <<m[x], m[x + 1], m[x + 2], ValW(m[x + ValOffset][1] + 10)>>
  ELSE <<ValW(m[x][1] + 10)>>

\* ActionVisit for each non-nil child value of the struct x, in field order.
ChildVisits(m, id, x) ==
  IF id # TargetTypeContainerType THEN <<>>
  ELSE (IF m[x][1] # Nil
        THEN <<ActionVisitTypeID(TargetTypeContainerType, m[x][1])>> ELSE <<>>)
       \o (IF m[x + 1][1] # 0 /\ m[x + 1][2] # Nil
           THEN <<ActionVisitTypeID(m[x + 1][1], m[x + 1][2])>> ELSE <<>>)

Reverse(s) == [i \in 1..Len(s) |-> s[Len(s) + 1 - i]]

\* TargetContext.Actions: the generated wrapper turns an empty list into Skip.
TargetContextActions(as) == IF Len(as) = 0 THEN ContextSkip ELSE ContextActions(as)

\* TypeData.Facade: call the user function on the slot's value; the decision it
\* returns and the heap after it ran.
Facade(c, a, m) ==
  LET base ==
        CASE c.k = "skip" -> ContextSkip
          [] c.k = "halt" -> ContextHalt
          [] c.k = "error" -> ContextError("e")
          [] c.k = "replace" -> DecisionReplace(ZeroDecision, a.typeData, Len(m) + 1)
          [] c.k = "actionsRev" ->
               TargetContextActions(Reverse(ChildVisits(m, a.typeData, a.value)))
          [] c.k = "actionsCall" ->
               TargetContextActions(<<ActionCall("side")>>
                                      \o ChildVisits(m, a.typeData, a.value))
          \* Context.Actions of the engine, given a list that is empty and not nil
          [] c.k = "actionsEmpty" -> ContextActions(<<>>)
          [] OTHER -> ContextContinue
      d1 == IF c.post THEN DecisionPost(base, "post") ELSE base
      d2 == IF c.icpt # NoFn THEN DecisionIntercept(d1, c.icpt) ELSE d1
  IN [d |-> d2,
      mem |-> IF c.k = "replace" THEN m \o ReplacementWords(m, a.typeData, a.value) ELSE m]

------------------------------------------------------------------------------
(* Execute. *)

\* No Oracle was made.
\* No pass over the types.
NoView == [at |-> "idle"]

NoOracle == [data |-> <<>>, ts |-> <<>>, calls |-> {}]

\* The code generator is not running.
NoGeneration ==
  [types |-> <<>>, pending |-> {}, allTypes |-> <<>>, structs |-> <<>>, keys |-> {},
   sorted |-> <<>>, at |-> "idle", outputs |-> <<>>]

\* No call of Stringify.
NoStringify == [id |-> 0, td |-> Nil, ret |-> <<>>, at |-> "idle"]

\* New has returned the Engine long ago; its type map is TypeMap.
Built == [m |-> <<>>, typeMap |-> <<>>, idx |-> 0, fIdx |-> 0, at |-> "returned"]

\* A single Execute call: nothing else runs on the Engine.
OneCall == [cur |-> 0, saved |-> <<>>, policy |-> "any", overlapped |-> FALSE]

Init ==
  /\ \E g \in Graphs : mem = GraphMem(g)
  /\ mem0 = mem
  /\ stack = <<NewFrame(NoFn, <<ActionVisitReplace(RootType, RootHandle, RootType)>>)>>
  /\ pc = "enter"
  /\ halting = FALSE
  /\ returning = NoFrame
  /\ result = [retType |-> 0, ret |-> Nil, changed |-> FALSE, err |-> NoErr]
  /\ log = <<>>
  /\ entered = <<>>
  /\ allocs = {}
  /\ sched = OneCall
  /\ build = Built
  /\ str = NoStringify
  /\ gen = NoGeneration
  /\ oracle = NoOracle
  /\ view = NoView

\* The error returned together with what the root slot holds so far.
ReturnErrorKeepsRoot(e, l, m) ==
  /\ result' = [retType |-> Zero(stack[1]).typeData, ret |-> Zero(stack[1]).value,
                changed |-> TRUE, err |-> e]
  /\ pc' = "done"
  /\ log' = l
  /\ mem' = m
  /\ UNCHANGED <<mem0, stack, halting, returning, allocs, sched, build, str, gen, oracle, view>>

\* return 0, nil, false, err
ReturnError(e, l, m) ==
  /\ result' = [retType |-> 0, ret |-> Nil, changed |-> FALSE, err |-> e]
  /\ pc' = "done"
  /\ log' = l
  /\ mem' = m
  /\ UNCHANGED <<mem0, stack, halting, returning, allocs, sched, build, str, gen, oracle, view>>

\* A cycle search that looks at the frame right beneath only.
OnStackParentOnly ==
  /\ Len(stack) > 1
  /\ Active(stack[Len(stack) - 1]).value = CurSlot.value
  /\ Active(stack[Len(stack) - 1]).typeData = CurSlot.typeData

\* A cycle search that never finds the value.
OnStackNever == FALSE

\* A cycle search that starts above the bootstrap frame.
OnStackAboveRoot ==
  \E l \in 2..(Len(stack) - 1) :
    /\ Active(stack[l]).value = CurSlot.value
    /\ Active(stack[l]).typeData = CurSlot.typeData

\* The cycle search: an ancestor frame whose active slot has this type and handle.
OnStack ==
  \E l \in 1..(Len(stack) - 1) :
    /\ Active(stack[l]).value = CurSlot.value
    /\ Active(stack[l]).typeData = CurSlot.typeData

\* curFrame = entering; curSlot = curFrame.Zero(); goto enter
Push(st, f) ==
  /\ Len(st) < MaxDepth
  /\ stack' = Append(st, f)
  /\ pc' = "enter"

\* enter: the slot wraps a side-effect function.
EnterCall ==
  /\ pc = "enter"
  /\ CurSlot.call # NoFn
  /\ entered' = Append(entered, [path |-> Path, count |-> CurFrame.Count])
  /\ \E e \in {NoErr, "e"} :
       LET l1 == Append(log, Event("call", CurSlot.call, CurSlot, ContextError(e)))
       IN IF e # NoErr THEN ReturnError(e, l1, mem)
          ELSE /\ pc' = "unwind"
               /\ log' = l1
               /\ UNCHANGED <<mem, mem0, stack, halting, returning, result, allocs, sched, build, str, gen, oracle, view>>

\* enter: the value is already being visited further down the stack.
EnterCycle ==
  /\ pc = "enter"
  /\ CurSlot.call = NoFn
  /\ OnStack
  /\ entered' = Append(entered, [path |-> Path, count |-> CurFrame.Count])
  /\ pc' = "nextSlot"
  /\ UNCHANGED <<mem, mem0, stack, halting, returning, result, log, allocs, sched, build, str, gen, oracle, view>>

Dispatch(kind) ==
  /\ pc = "enter"
  /\ CurSlot.call = NoFn
  /\ ~OnStack
  /\ typeData(CurSlot.typeData).Kind = kind
  /\ entered' = Append(entered, [path |-> Path, count |-> CurFrame.Count])

EnterPointer ==
  /\ Dispatch(KindPointer)
  /\ LET ptr == mem[CurSlot.value][1]
         elemData == typeData(CurSlot.typeData).Elem
     IN IF ptr = Nil THEN pc' = "unwind" /\ stack' = stack
        ELSE Push(stack, NewFrame(CurFrame.Intercept,
                                  <<ActionVisitReplace(elemData, ptr, elemData)>>))
  /\ UNCHANGED <<mem, mem0, halting, returning, result, log, allocs, sched, build, str, gen, oracle, view>>

EnterSlice ==
  /\ Dispatch(KindSlice)
  /\ LET header == mem[CurSlot.value]
         eltTd == typeData(CurSlot.typeData).Elem
     IN IF header[2] = 0 THEN pc' = "unwind" /\ stack' = stack
        ELSE Push(stack, NewFrame(CurFrame.Intercept,
                    [i \in 1..header[2] |->
                       ActionVisitReplace(eltTd,
                                          header[1] + (i - 1) * typeData(eltTd).SizeOf,
                                          eltTd)]))
  /\ UNCHANGED <<mem, mem0, halting, returning, result, log, allocs, sched, build, str, gen, oracle, view>>

EnterInterface ==
  /\ Dispatch(KindInterface)
  /\ LET ptr == mem[CurSlot.value][2]
         elem == IntfType(mem, CurSlot.value)
     IN IF elem = 0 \/ ptr = Nil THEN pc' = "unwind" /\ stack' = stack
        ELSE Push(stack, NewFrame(CurFrame.Intercept,
                                  <<ActionVisitReplace(elem, ptr, CurSlot.typeData)>>))
  /\ UNCHANGED <<mem, mem0, halting, returning, result, log, allocs, sched, build, str, gen, oracle, view>>

\* The descent decided without looking at d.skip.
StructDescentIgnoresSkip(d, s, m, halt) ==
  LET fields == typeData(s.typeData).Fields
  IN CASE halt -> <<>>
       [] d.hasActions ->
            IF Len(d.actions) = 0 THEN <<>> ELSE <<NewFrame(d.intercept, d.actions)>>
       [] OTHER ->
            IF Len(fields) = 0 THEN <<>>
            ELSE <<NewFrame(d.intercept,
                     [i \in 1..Len(fields) |->
                        ActionVisitReplace(fields[i].Target, s.value + fields[i].Offset,
                                           fields[i].Target)])>>

\* The descent over the declared fields whatever actions d carries.
StructDescentIgnoresActions(d, s, m, halt) ==
  LET fields == typeData(s.typeData).Fields
  IN CASE halt \/ d.skip -> <<>>
       [] OTHER ->
            IF Len(fields) = 0 THEN <<>>
            ELSE <<NewFrame(d.intercept,
                     [i \in 1..Len(fields) |->
                        ActionVisitReplace(fields[i].Target, s.value + fields[i].Offset,
                                           fields[i].Target)])>>

\* An empty action list taken for no action list at all.
StructDescentEmptyAsDefault(d, s, m, halt) ==
  LET fields == typeData(s.typeData).Fields
  IN CASE halt \/ d.skip -> <<>>
       [] d.hasActions /\ Len(d.actions) > 0 -> <<NewFrame(d.intercept, d.actions)>>
       [] OTHER ->
            IF Len(fields) = 0 THEN <<>>
            ELSE <<NewFrame(d.intercept,
                     [i \in 1..Len(fields) |->
                        ActionVisitReplace(fields[i].Target, s.value + fields[i].Offset,
                                           fields[i].Target)])>>

\* The declared fields descended last to first.
StructDescentLastFirst(d, s, m, halt) ==
  LET fields == typeData(s.typeData).Fields
      n == Len(fields)
  IN CASE halt \/ d.skip -> <<>>
       [] d.hasActions ->
            IF Len(d.actions) = 0 THEN <<>> ELSE <<NewFrame(d.intercept, d.actions)>>
       [] OTHER ->
            IF n = 0 THEN <<>>
            ELSE <<NewFrame(d.intercept,
                     [i \in 1..n |->
                        ActionVisitReplace(fields[n + 1 - i].Target,
                                           s.value + fields[n + 1 - i].Offset,
                                           fields[n + 1 - i].Target)])>>

\* A frame pushed for an empty action list and for a struct without fields.
StructDescentPushesEmpty(d, s, m, halt) ==
  LET fields == typeData(s.typeData).Fields
  IN CASE halt \/ d.skip -> <<>>
       [] d.hasActions -> <<NewFrame(d.intercept, d.actions)>>
       [] OTHER ->
            <<NewFrame(d.intercept,
                [i \in 1..Len(fields) |->
                   ActionVisitReplace(fields[i].Target, s.value + fields[i].Offset,
                                      fields[i].Target)])>>

\* Only the walker function's own halt stops the descent.
StructDescentOnOwnHalt(d, s, m, halt) ==
  LET fields == typeData(s.typeData).Fields
  IN CASE d.halt \/ d.skip -> <<>>
       [] d.hasActions ->
            IF Len(d.actions) = 0 THEN <<>> ELSE <<NewFrame(d.intercept, d.actions)>>
       [] OTHER ->
            IF Len(fields) = 0 THEN <<>>
            ELSE <<NewFrame(d.intercept,
                     [i \in 1..Len(fields) |->
                        ActionVisitReplace(fields[i].Target, s.value + fields[i].Offset,
                                           fields[i].Target)])>>

\* The frame to enter after the walker function returned d for slot s, if any.
StructDescent(d, s, m, halt) ==
  LET fields == typeData(s.typeData).Fields
  IN CASE halt \/ d.skip -> <<>>
       [] d.hasActions ->
            IF Len(d.actions) = 0 THEN <<>> ELSE <<NewFrame(d.intercept, d.actions)>>
       [] OTHER ->
            IF Len(fields) = 0 THEN <<>>
            ELSE <<NewFrame(d.intercept,
                     [i \in 1..Len(fields) |->
                        ActionVisitReplace(fields[i].Target, s.value + fields[i].Offset,
                                           fields[i].Target)])>>

\* An intercept's own intercept dropped.
HandOverDropped(icpt, d) == icpt

\* Allow interceptors to replace themselves: curFrame.Intercept after the
\* intercept icpt returned d.
HandOver(icpt, d) == IF d.intercept # NoFn THEN d.intercept ELSE icpt

EnterStruct ==
  /\ Dispatch(KindStruct)
  /\ UNCHANGED <<mem0, returning, allocs, sched, build, str, gen, oracle, view>>
  /\ LET icpt == CurFrame.Intercept IN
     \E ci \in (IF icpt # NoFn THEN InterceptChoices(log) ELSE {NoChoice}) :
       LET r1 == IF icpt # NoFn THEN Facade(ci, CurSlot, mem)
                 ELSE [d |-> ZeroDecision, mem |-> mem]
           ap1 == apply(CurSlot, r1.d)
           log1 == IF icpt # NoFn
                   THEN Append(log, Event("intercept", icpt, CurSlot, r1.d)) ELSE log
           halting1 == halting \/ r1.d.halt
           intercept1 == HandOver(icpt, r1.d)
       IN IF ap1.err # NoErr
          THEN ReturnError(ap1.err, log1, r1.mem)
          ELSE \E cv \in VisitChoices(log1) :
                 LET r2 == Facade(cv, ap1.slot, r1.mem)
                     ap2 == apply(ap1.slot, r2.d)
                     log2 == Append(log1, Event("visit", "fn", ap1.slot, r2.d))
                     halting2 == halting1 \/ r2.d.halt
                     st == WithSlot([stack EXCEPT ![Len(stack)].Intercept = intercept1],
                                    ap2.slot)
                     entering == StructDescent(r2.d, ap2.slot, r2.mem, halting2)
                 IN IF ap2.err # NoErr
                    THEN ReturnError(ap2.err, log2, r2.mem)
                    ELSE /\ log' = log2
                         /\ mem' = r2.mem
                         /\ halting' = halting2
                         /\ result' = result
                         /\ IF entering = <<>>
                            THEN pc' = "unwind" /\ stack' = st
                            ELSE Push(st, entering[1])

Enter == EnterCall \/ EnterCycle \/ EnterPointer \/ EnterStruct \/ EnterSlice \/ EnterInterface

\* TypeData.IntfWrap: a new interface value holding the value x of type id; nil
\* for an id the interface has no case for.
IntfWrap(m, id, x) ==
  CASE id \in {TargetTypeByRefType, TargetTypeContainerType} ->
         [mem |-> Append(m, IfaceW(id, x)), value |-> Len(m) + 1]
    [] id = TargetTypeContainerTypePtr ->
         [mem |-> Append(m, IfaceW(TargetTypeContainerType, m[x][1])), value |-> Len(m) + 1]
    [] OTHER -> [mem |-> m, value |-> Nil]

\* Only the slots that were entered are copied out of the completed frame.
RECURSIVE CopySlotsEntered(_, _, _, _, _)
CopySlotsEntered(m, ret, k, td, dest) ==
  IF k >= Len(td) \/ k >= ret.Idx THEN m
  ELSE CopySlotsEntered(Copy(m, td[k + 1], dest[k + 1], Slot(ret, k).value),
                        ret, k + 1, td, dest)

\* Copy the value of slot i of the completed frame to dest[i + 1] as a value of
\* type td[i + 1], for i = k..Len(td) - 1.
RECURSIVE CopySlots(_, _, _, _, _)
CopySlots(m, ret, k, td, dest) ==
  IF k >= Len(td) THEN m
  ELSE CopySlots(Copy(m, td[k + 1], dest[k + 1], Slot(ret, k).value), ret, k + 1, td, dest)

\* A rebuilt struct that is left zeroed instead of being copied from the original.
ShallowCopySkipped(m, id, next, value) == m

\* Perform a shallow copy to catch non-visitable fields.
ShallowCopy(m, id, next, value) == Copy(m, id, next, value)

\* The pointee's handle written into the original pointer cell.
NewPointerCellInPlace(m, s, next) ==
  [mem |-> [m EXCEPT ![s.value] = PtrW(next)], value |-> s.value]

\* Copy out the pointer to a local var, so that the original cell is not stomped on.
NewPointerCell(m, s, next) == [mem |-> Append(m, PtrW(next)), value |-> Len(m) + 1]

\* unwind: fold the completed frame ret into a new value for the dirty slot s.
\* A nil source handle makes Copy dereference nil, which panics.
Reconstruct(m, s, ret) ==
  LET td == typeData(s.typeData)
      next == Len(m) + 1
  IN CASE td.Kind = KindStruct ->
            LET m1 == ShallowCopy(m \o Zeros(td.SizeOf), s.typeData, next, s.value)
                fieldTd == [i \in 1..Len(td.Fields) |-> td.Fields[i].Target]
                fPtr == [i \in 1..Len(td.Fields) |-> next + td.Fields[i].Offset]
            IN IF \E i \in 0..(Len(td.Fields) - 1) : Slot(ret, i).value = Nil
               THEN [panic |-> TRUE, mem |-> m, value |-> s.value]
               ELSE [panic |-> FALSE,
                     mem |-> CopySlots(m1, ret, 0, fieldTd, fPtr),
                     value |-> next]
       [] td.Kind = KindPointer ->
            LET c == NewPointerCell(m, s, Zero(ret).value)
            IN [panic |-> FALSE, mem |-> c.mem, value |-> c.value]
       [] td.Kind = KindSlice ->
            LET elemTd == td.Elem
                data == next + 1
                m1 == Append(m, SliceW(data, ret.Count))
                        \o Zeros(ret.Count * typeData(elemTd).SizeOf)
                toElem == [i \in 1..ret.Count |-> data + (i - 1) * typeData(elemTd).SizeOf]
                eTd == [i \in 1..ret.Count |-> elemTd]
            IN IF \E i \in 0..(ret.Count - 1) : Slot(ret, i).value = Nil
               THEN [panic |-> TRUE, mem |-> m, value |-> s.value]
               ELSE [panic |-> FALSE,
                     mem |-> CopySlots(m1, ret, 0, eTd, toElem),
                     value |-> next]
       [] td.Kind = KindInterface ->
            LET w == IntfWrap(m, Zero(ret).typeData, Zero(ret).value)
            IN [panic |-> FALSE, mem |-> w.mem, value |-> w.value]

\* stack.Top(1).Active().dirty = true
MarkParentDirty(st) ==
  IF Len(st) > 1
  THEN [st EXCEPT ![Len(st) - 1] = StoreSlot(@, @.Idx, [Active(@) EXCEPT !.dirty = TRUE])]
  ELSE st

\* The parent marked dirty whether or not the slot is.
PropagateAlways(st, s) == MarkParentDirty(st)

\* The parent never marked dirty.
PropagateNever(st, s) == st

\* The change propagated upwards except into the bootstrap slot.
PropagateBelowRoot(st, s) == IF s.dirty /\ Len(st) > 2 THEN MarkParentDirty(st) ELSE st

\* A side-effect slot propagated upwards as if it were dirty.
PropagateFromCalls(st, s) == IF s.dirty \/ s.call # NoFn THEN MarkParentDirty(st) ELSE st

\* If the slot reports that it's dirty, propagate the change upwards in the stack.
Propagate(st, s) == IF s.dirty THEN MarkParentDirty(st) ELSE st

\* Every slot that a frame returned to rebuilt, a clean one too.
NeedsRebuildWhenClean(s) == ~s.replaced /\ (s.dirty \/ returning.Count > 0)

\* Every dirty slot rebuilt, a replaced one too.
NeedsRebuildWhenReplaced(s) == s.dirty

\* A replaced slot rebuilt all the same when a frame was completed under it.
NeedsRebuildWhenDescended(s) == s.dirty /\ (~s.replaced \/ returning.Count > 0)

\* A dirty slot is rebuilt from its children unless it was given a replacement.
NeedsRebuild(s) == s.dirty /\ ~s.replaced

\* A post decision that stops the traversal when it skips or gives actions.
PostHaltsOnSkip(d) == d.halt \/ d.skip \/ d.hasActions

\* A post decision's halt left unread.
PostHaltUnread(d) == FALSE

\* What unwind reads of a post decision besides what apply folds in: d.halt.
PostHalts(d) == d.halt

Unwind ==
  /\ pc = "unwind"
  /\ UNCHANGED <<mem0, returning, entered, sched, build, str, gen, oracle, view>>
  /\ LET post == CurSlot.post IN
     \E c \in (IF post # NoFn THEN PostChoices(log) ELSE {NoChoice}) :
       LET r == IF post # NoFn THEN Facade(c, CurSlot, mem)
                ELSE [d |-> ZeroDecision, mem |-> mem]
           ap == apply(CurSlot, r.d)
           log1 == IF post # NoFn
                   THEN Append(log, Event("post", post, CurSlot, r.d)) ELSE log
           s == ap.slot
           rebuild == NeedsRebuild(s)
           rec == IF rebuild THEN Reconstruct(r.mem, s, returning)
                  ELSE [panic |-> FALSE, mem |-> r.mem, value |-> s.value]
           st == Propagate(stack, s)
       IN IF ap.err # NoErr
          THEN ReturnError(ap.err, log1, r.mem) /\ allocs' = allocs
          ELSE /\ log' = log1
               /\ halting' = (halting \/ PostHalts(r.d))
               /\ result' = result
               /\ IF rec.panic
                  THEN /\ pc' = "panic"
                       /\ stack' = WithSlot(st, s)
                       /\ mem' = r.mem
                       /\ allocs' = allocs
                  ELSE /\ pc' = "nextSlot"
                       /\ stack' = WithSlot(st, [s EXCEPT !.value = rec.value])
                       /\ mem' = rec.mem
                       /\ allocs' = IF rebuild /\ rec.value # Nil
                                    THEN allocs \cup {rec.value} ELSE allocs

\* A frame that is finished only after its last slot.
FrameDoneIgnoresHalting(f, idx) == idx = f.Count

\* The frame is finished: its last slot was processed, or the user wants to stop.
FrameDone(f, idx) == idx = f.Count \/ halting

\* A popped frame's parent slot left without unwinding it.
AfterPopSkipsUnwind == "nextSlot"

\* Jump back to the unwinding code to finish the slot of the frame now on top.
AfterPop == "unwind"

NextSlot ==
  /\ pc = "nextSlot"
  /\ UNCHANGED <<mem, mem0, halting, log, entered, allocs, sched, build, str, gen, oracle, view>>
  /\ LET idx == CurFrame.Idx + 1
         st == [stack EXCEPT ![Len(stack)].Idx = idx]
     IN IF FrameDone(CurFrame, idx)
        THEN IF Len(stack) = 1
             THEN LET z == Zero(st[1])
                  IN /\ result' = [retType |-> z.typeData, ret |-> z.value,
                                   changed |-> z.dirty, err |-> NoErr]
                     /\ pc' = "done"
                     /\ stack' = st
                     /\ returning' = returning
             ELSE /\ returning' = st[Len(st)]
                  /\ stack' = SubSeq(st, 1, Len(st) - 1)
                  /\ pc' = AfterPop
                  /\ result' = result
        ELSE /\ stack' = st
             /\ pc' = "enter"
             /\ UNCHANGED <<returning, result>>

Next == Enter \/ Unwind \/ NextSlot

Spec == Init /\ [][Next]_vars

\* Every decision so far is Continue, Skip, Halt or Error, with or without Post
\* and Intercept: none replaces a value, none gives a list of actions.
Plain(l) == \A i \in DOMAIN l : l[i].d.replacement = Nil /\ ~l[i].d.hasActions

\* Execute with callbacks that neither replace nor give actions.  Execute is one
\* sequential loop: whenever it has a next step, it takes it.
PlainEnter ==
  (EnterCycle \/ EnterPointer \/ EnterStruct \/ EnterSlice \/ EnterInterface) /\ Plain(log')
PlainUnwind == Unwind /\ Plain(log')
PlainNext == PlainEnter \/ PlainUnwind \/ NextSlot

SpecTerm == Init /\ [][PlainNext]_vars /\ WF_vars(PlainNext)

------------------------------------------------------------------------------
(* Several Execute calls on one Engine.  The Engine holds only the type map,  *)
(* which Execute reads and never assigns; everything else Execute works on is *)
(* declared inside the call.  A reference call runs alone first; then two     *)
(* calls over the same graph are interleaved step by step.                    *)

Calls == {1, 2}
Reference == 0

\* The variables declared inside Execute: ctx, stack, curFrame, curSlot,
\* entering, halting, returning, and what the call has returned.
Locals ==
  [stack |-> stack, pc |-> pc, halting |-> halting, returning |-> returning,
   result |-> result, log |-> log, entered |-> entered]

\* A call whose halting flag is the one of whichever call ran last.
ResumeSharedHalting(l) ==
  /\ stack' = l.stack
  /\ pc' = l.pc
  /\ halting' = halting
  /\ returning' = l.returning
  /\ result' = l.result
  /\ log' = l.log
  /\ entered' = l.entered

\* The call goes on with its own locals.
Resume(l) ==
  /\ stack' = l.stack
  /\ pc' = l.pc
  /\ halting' = l.halting
  /\ returning' = l.returning
  /\ result' = l.result
  /\ log' = l.log
  /\ entered' = l.entered

LocalsOf(i) == IF i = sched.cur THEN Locals ELSE sched.saved[i]

InFlight(l) == l.pc # "done" /\ l.log # <<>>

\* Callbacks that only read: what the walker function returns depends on the
\* value it is shown and on nothing else.  It may skip, halt or fail at one
\* value and continues at every other; at the root it registers a post and an
\* intercept function, and those return Continue.
Policies == [at : {5}, k : {"continue", "skip", "halt", "error"}]

\* The graphs the concurrent calls walk: the second struct of both is at 5.
ConcGraphs == {"cycle", "slice"}

PolicyChoice(h) ==
  [k |-> IF h = sched.policy.at THEN sched.policy.k ELSE "continue",
   post |-> h = RootHandle,
   icpt |-> IF h = RootHandle THEN "icptA" ELSE NoFn]

Follows(l) ==
  \A i \in DOMAIN l :
    l[i].d = IF l[i].kind = "visit"
             THEN Facade(PolicyChoice(l[i].value), ZeroAction, mem).d
             ELSE ZeroDecision

ConcInit ==
  /\ \E g \in ConcGraphs : mem = GraphMem(g)
  /\ mem0 = mem
  /\ stack = <<NewFrame(NoFn, <<ActionVisitReplace(RootType, RootHandle, RootType)>>)>>
  /\ pc = "enter"
  /\ halting = FALSE
  /\ returning = NoFrame
  /\ result = [retType |-> 0, ret |-> Nil, changed |-> FALSE, err |-> NoErr]
  /\ log = <<>>
  /\ entered = <<>>
  /\ allocs = {}
  /\ \E p \in Policies :
       sched = [cur |-> Reference, saved |-> [i \in Calls \cup {Reference} |-> Locals],
                policy |-> p, overlapped |-> FALSE]
  /\ build = Built
  /\ str = NoStringify
  /\ gen = NoGeneration
  /\ oracle = NoOracle
  /\ view = NoView

\* The scheduler takes the processor from the running call and gives it to
\* another call that has not returned.
Switch(to) ==
  /\ to # sched.cur
  /\ sched.cur = Reference => pc = "done"
  /\ sched.saved[to].pc # "done"
  /\ sched' = [sched EXCEPT !.cur = to,
                            !.saved[sched.cur] = Locals,
                            !.overlapped = @ \/ (InFlight(Locals) /\ InFlight(sched.saved[to]))]
  /\ Resume(sched.saved[to])
  /\ UNCHANGED <<mem, mem0, allocs, build, str, gen, oracle, view>>

ConcEnter ==
  (EnterCycle \/ EnterPointer \/ EnterStruct \/ EnterSlice \/ EnterInterface) /\ Follows(log')
ConcUnwind == Unwind /\ Follows(log')
ConcSwitch == \E to \in Calls : Switch(to)
ConcNext == ConcEnter \/ ConcUnwind \/ NextSlot \/ ConcSwitch

SpecConc == ConcInit /\ [][ConcNext]_vars

------------------------------------------------------------------------------
(* New: the construction of an Engine from a type map.  A type map is a slice *)
(* of descriptors indexed by TypeID; a link (elemData, targetData) is a       *)
(* pointer to an element of the Engine's slice, here the index it points at,  *)
(* and Nil while unset.                                                       *)

\* The ids a descriptor may name: none, a registered one, or one past the slice.
RefIds == 0..(MaxTypes + 1)

\* The zero TypeData: what the slice holds at an index nothing is registered at.
ZeroTypeData ==
  [TypeID |-> 0, Kind |-> "", Elem |-> 0, elemData |-> Nil, Fields |-> <<>>, Name |-> ""]

\* The declared name of the type registered at id.
TypeName(id) == "type" \o ToString(id)

FieldLists ==
  UNION {[1..n -> [Target : RefIds, targetData : {Nil}]] : n \in 0..MaxFields}

\* A struct or interface descriptor registered at id; an interface has no fields.
NamedTypeData(id, kind, fields) ==
  [TypeID |-> id, Kind |-> kind, Elem |-> 0, elemData |-> Nil, Fields |-> fields,
   Name |-> TypeName(id)]

\* Nothing, a pointer descriptor or a slice descriptor, with any element id.
ElemChoices == {[k |-> "", el |-> 0]} \cup [k : {KindPointer, KindSlice}, el : RefIds]

ElemTypeData(id, c) ==
  IF c.k = "" THEN ZeroTypeData
  ELSE [TypeID |-> id, Kind |-> c.k, Elem |-> c.el, elemData |-> Nil, Fields |-> <<>>,
        Name |-> ""]

\* A type map: index 0 is reserved and holds the zero TypeData, the index sid,
\* if it is not 0, holds a struct or an interface descriptor, and every other
\* index holds nothing, a pointer descriptor or a slice descriptor.
TypeMapOf(c, sid, kind, fields) ==
  [id \in 0..MaxTypes |->
     IF id = 0 THEN ZeroTypeData
     ELSE IF id = sid THEN NamedTypeData(id, kind, fields)
     ELSE ElemTypeData(id, c[id])]

\* found.TypeID == 0 for every id, one past the slice included.
MissingUnlessInRange(tm, id) == id \notin DOMAIN tm

\* found := e.typeData(id) indexes the slice, which panics past its end;
\* found.TypeID == 0 when nothing is registered at id.
Missing(tm, id) == id \notin DOMAIN tm \/ tm[id].TypeID = 0

NewInit ==
  /\ \E c \in [1..MaxTypes -> ElemChoices], sid \in 0..MaxTypes,
        kind \in {KindStruct, KindInterface}, fields \in FieldLists :
       /\ sid # 0 => c[sid].k = ""
       /\ (sid = 0 \/ kind = KindInterface) => fields = <<>>
       /\ sid = 0 => kind = KindStruct
       /\ build = [m |-> TypeMapOf(c, sid, kind, fields),
                   typeMap |-> TypeMapOf(c, sid, kind, fields),
                   idx |-> 0, fIdx |-> 0, at |-> "elem"]
  /\ str = NoStringify
  /\ gen = NoGeneration
  /\ oracle = NoOracle
  /\ view = NoView
  /\ mem = <<>>
  /\ mem0 = <<>>
  /\ stack = <<>>
  /\ pc = "new"
  /\ halting = FALSE
  /\ returning = NoFrame
  /\ result = [retType |-> 0, ret |-> Nil, changed |-> FALSE, err |-> NoErr]
  /\ log = <<>>
  /\ entered = <<>>
  /\ allocs = {}
  /\ sched = OneCall

NotExecuting ==
  UNCHANGED <<mem, mem0, stack, pc, halting, returning, result, log, entered, allocs, sched>>

NotStringifying == UNCHANGED str

NotGenerating == UNCHANGED <<gen, oracle>>

NotViewing == UNCHANGED view

\* for idx, td := range e.typeMap { if td.Elem != 0 { ... } : the loop is over
\* when idx is past the slice.
NewElem ==
  /\ build.at = "elem"
  /\ build.idx \in DOMAIN build.typeMap
  /\ NotExecuting /\ NotStringifying /\ NotGenerating /\ NotViewing
  /\ LET td == build.typeMap[build.idx] IN
     IF td.Elem = 0
     THEN build' = [build EXCEPT !.at = "fields", !.fIdx = 1]
     ELSE IF Missing(build.typeMap, td.Elem)
          THEN build' = [build EXCEPT !.at = "panic"]
          ELSE build' = [build EXCEPT !.typeMap[build.idx].elemData = td.Elem,
                                      !.at = "fields", !.fIdx = 1]

\* for fIdx, field := range td.Fields { ... } : the copy New made shares the
\* Fields of the map it was given, so the link is written to both.
NewField ==
  /\ build.at = "fields"
  /\ NotExecuting /\ NotStringifying /\ NotGenerating /\ NotViewing
  /\ LET td == build.typeMap[build.idx] IN
     IF build.fIdx > Len(td.Fields)
     THEN build' = [build EXCEPT !.at = "elem", !.idx = @ + 1]
     ELSE LET field == td.Fields[build.fIdx] IN
          IF Missing(build.typeMap, field.Target)
          THEN build' = [build EXCEPT !.at = "panic"]
          ELSE build' =
                 [build EXCEPT
                    !.typeMap[build.idx].Fields[build.fIdx].targetData = field.Target,
                    !.m[build.idx].Fields[build.fIdx].targetData = field.Target,
                    !.fIdx = @ + 1]

\* return e
NewReturn ==
  /\ build.at = "elem"
  /\ build.idx \notin DOMAIN build.typeMap
  /\ NotExecuting /\ NotStringifying /\ NotGenerating /\ NotViewing
  /\ build' = [build EXCEPT !.at = "returned"]

NewNext == NewElem \/ NewField \/ NewReturn

SpecNew == NewInit /\ [][NewNext]_vars

\* The caller of New writes through the type map it passed, after New returned:
\* m[idx].Elem = el stores into the caller's slice, which the Engine's copy does
\* not share; m[idx].Fields[fIdx].Target = el stores into the Fields array, which
\* the descriptor of the Engine's copy shares.
CallerWrite ==
  /\ build.at = "returned"
  /\ NotExecuting /\ NotStringifying /\ NotGenerating /\ NotViewing
  /\ \E idx \in DOMAIN build.m \ {0}, el \in RefIds :
       \/ /\ build.m[idx].Elem # el
          /\ build' = [build EXCEPT !.m[idx].Elem = el, !.at = "written"]
       \/ \E fIdx \in DOMAIN build.m[idx].Fields :
            /\ build.m[idx].Fields[fIdx].Target # el
            /\ build' = [build EXCEPT !.m[idx].Fields[fIdx].Target = el,
                                      !.typeMap[idx].Fields[fIdx].Target = el,
                                      !.at = "written"]

NewCallerNext == NewNext \/ CallerWrite

SpecNewCaller == NewInit /\ [][NewCallerNext]_vars

------------------------------------------------------------------------------
(* Stringify, called on the Engine that New returned. *)

\* What ret.WriteRune('*') and ret.WriteString("[]") append.
Star == "*"
Brackets == "[]"

\* Stringify(id): id == 0 returns "<NIL>"; else td := e.typeData(id).
StringifyCall ==
  /\ build.at = "returned"
  /\ str.at = "idle"
  /\ NotExecuting /\ NotGenerating /\ NotViewing /\ UNCHANGED build
  /\ \E id \in DOMAIN build.typeMap :
       str' = IF id = 0
              THEN [id |-> id, td |-> Nil, ret |-> <<"<NIL>">>, at |-> "returned"]
              ELSE [id |-> id, td |-> id, ret |-> <<>>, at |-> "loop"]

\* One turn of the for loop: switch td.Kind.  td is a pointer, and reading
\* td.Kind through a nil td panics.
StringifyLoop ==
  /\ str.at = "loop"
  /\ NotExecuting /\ NotGenerating /\ NotViewing /\ UNCHANGED build
  /\ IF str.td = Nil
     THEN str' = [str EXCEPT !.at = "panic"]
     ELSE LET td == build.typeMap[str.td] IN
          CASE td.Kind \in {KindInterface, KindStruct} ->
                 str' = [str EXCEPT !.ret = Append(@, td.Name), !.at = "returned"]
            [] td.Kind = KindPointer ->
                 /\ Len(str.ret) < MaxLevels
                 /\ str' = [str EXCEPT !.ret = Append(@, Star), !.td = td.elemData]
            [] td.Kind = KindSlice ->
                 /\ Len(str.ret) < MaxLevels
                 /\ str' = [str EXCEPT !.ret = Append(@, Brackets), !.td = td.elemData]
            [] OTHER -> str' = [str EXCEPT !.at = "panic"]

StringifyNext == NewNext \/ StringifyCall \/ StringifyLoop

\* New and Stringify are sequential code: whenever a step is possible it is taken.
SpecStringify == NewInit /\ [][StringifyNext]_vars /\ WF_vars(StringifyNext)

------------------------------------------------------------------------------
(* The code generator: generateAPI over the types of one source tree, run    *)
(* twice.  A *ts.T is an index into the table of the types the Oracle made   *)
(* for that source; 0 is no type.                                            *)

\* ts.Kind, by the strings Kind.String gives.
Struct == "Struct"
Pointer == "Pointer"
Slice == "Slice"
Interface == "Interface"

\* type Bar struct{}
OnlyBar ==
  << [declaration |-> "Bar", kind |-> Struct, elem |-> 0, fields |-> <<>>],
     [declaration |-> "", kind |-> Pointer, elem |-> 1, fields |-> <<>>] >>

\* type Bar struct{}; type Foo struct{ X struct{ A *Bar } }
OneAnonymous ==
  OnlyBar \o
  << [declaration |-> "Foo", kind |-> Struct, elem |-> 0,
      fields |-> << [name |-> "X", typ |-> 4] >>],
     [declaration |-> "", kind |-> Struct, elem |-> 0,
      fields |-> << [name |-> "A", typ |-> 2] >>] >>

\* type Bar struct{}; type Foo struct{ X struct{ A *Bar }; Y struct{ B *Bar } }
TwoAnonymous ==
  OnlyBar \o
  << [declaration |-> "Foo", kind |-> Struct, elem |-> 0,
      fields |-> << [name |-> "X", typ |-> 4], [name |-> "Y", typ |-> 5] >>],
     [declaration |-> "", kind |-> Struct, elem |-> 0,
      fields |-> << [name |-> "A", typ |-> 2] >>],
     [declaration |-> "", kind |-> Struct, elem |-> 0,
      fields |-> << [name |-> "B", typ |-> 2] >>] >>

\* The sources the generator is run over: every type of each is in
\* view.Traversable, since every one of them leads to the visitable Bar.
Sources == {OnlyBar, OneAnonymous, TwoAnonymous}

\* ts.QualifiedName("", t): the declared name, or the glyphs of the pointers and
\* slices on the way to one, or the kind of a type that has no declaration.
RECURSIVE QualifiedName(_, _)
QualifiedName(types, t) ==
  IF types[t].declaration # "" THEN types[t].declaration
  ELSE IF types[t].kind = Pointer THEN "*" \o QualifiedName(types, types[t].elem)
  ELSE IF types[t].kind = Slice THEN "[]" \o QualifiedName(types, types[t].elem)
  ELSE types[t].kind

\* func (t *T) String() string
String(types, t) == QualifiedName(types, t)

\* The suffix of a wrapper put after the suffixes found so far.
RECURSIVE typeIDOutermostFirst(_, _, _, _)
typeIDOutermostFirst(types, root, target, suffix) ==
  IF types[target].declaration # ""
  THEN String(types, root) \o "Type" \o String(types, target) \o suffix
  ELSE IF types[target].kind = Pointer
       THEN typeIDOutermostFirst(types, root, types[target].elem, suffix \o "Ptr")
  ELSE IF types[target].kind = Slice
       THEN typeIDOutermostFirst(types, root, types[target].elem, suffix \o "Slice")
  ELSE "Zero"

\* typeID(root, target), with the suffix its loop has built so far:
\* fmt.Sprintf("%sType%s%s", root, target, suffix) for a declared type, the
\* element with "Ptr" or "Slice" put before the suffix for a pointer or a slice,
\* "Zero" for any other type that has no declaration.
RECURSIVE typeID(_, _, _, _)
typeID(types, root, target, suffix) ==
  IF types[target].declaration # ""
  THEN String(types, root) \o "Type" \o String(types, target) \o suffix
  ELSE IF types[target].kind = Pointer
       THEN typeID(types, root, types[target].elem, "Ptr" \o suffix)
  ELSE IF types[target].kind = Slice
       THEN typeID(types, root, types[target].elem, "Slice" \o suffix)
  ELSE "Zero"

\* templates.TemplateSources: the names the templates are registered under.
TemplateSources == {"00header", "10api", "50enhancements", "75typemap"}

\* The strings of the model in the order sort.Strings and text/template's range
\* over a map put them: byte by byte.
ByteOrder ==
  <<"*Bar", "00header", "10api", "50enhancements", "75typemap", "Bar", "Foo", "Struct">>

Rank(s) == CHOOSE i \in DOMAIN ByteOrder : ByteOrder[i] = s

\* sort.Strings over strings that are the keys of a map, so no two are equal.
SortStrings(s) ==
  LET S == {s[i] : i \in DOMAIN s}
  IN [i \in 1..Len(s) |->
        CHOOSE x \in S : Cardinality({y \in S : Rank(y) < Rank(x)}) = i - 1]

\* {{ range $s := ... }} over a map: text/template visits the keys in sorted order.
RangeKeys(m) ==
  LET S == DOMAIN m
  IN [i \in 1..Cardinality(S) |->
        CHOOSE x \in S : Cardinality({y \in S : Rank(y) < Rank(x)}) = i - 1]

\* m[k] = v
Put(m, k, v) == [x \in DOMAIN m \cup {k} |-> IF x = k THEN v ELSE m[x]]

\* TraversableFields: every field's type is in the view here.
TraversableFields(types, root, t) ==
  [i \in DOMAIN types[t].fields |->
     <<types[t].fields[i].name, typeID(types, root, types[t].fields[i].typ, "")>>]

\* What one template writes to buf.  "75typemap" ranges over Structs, writing
\* for each its TypeID, its name and its fields, and then over AllTypes,
\* writing the TypeID of each; the text of the other templates is taken as
\* fixed.
ExecuteTemplate(key, g) ==
  IF key = "75typemap"
  THEN <<key,
         [i \in 1..Cardinality(DOMAIN g.structs) |->
            LET s == g.structs[RangeKeys(g.structs)[i]]
            IN <<typeID(g.types, g.root, s, ""), String(g.types, s),
                 TraversableFields(g.types, g.root, s)>>],
         [i \in 1..Cardinality(DOMAIN g.allTypes) |->
            typeID(g.types, g.root, g.allTypes[RangeKeys(g.allTypes)[i]], "")]>>
  ELSE <<key>>

\* A run of generateAPI about to start over the types given; the root is Bar,
\* the first type of every source.
StartGeneration(types, outputs) ==
  [types |-> types, root |-> 1, pending |-> DOMAIN types, allTypes |-> <<>>,
   structs |-> <<>>,
   keys |-> TemplateSources, sorted |-> <<>>, at |-> "run", outputs |-> outputs]

GenInit ==
  /\ \E types \in Sources : gen = StartGeneration(types, <<>>)
  /\ build = Built
  /\ str = NoStringify
  /\ oracle = NoOracle
  /\ view = NoView
  /\ mem = <<>>
  /\ mem0 = <<>>
  /\ stack = <<>>
  /\ pc = "generate"
  /\ halting = FALSE
  /\ returning = NoFrame
  /\ result = [retType |-> 0, ret |-> Nil, changed |-> FALSE, err |-> NoErr]
  /\ log = <<>>
  /\ entered = <<>>
  /\ allocs = {}
  /\ sched = OneCall

\* for t := range view.Traversable { allTypes[t.String()] = t; ... }: the range
\* over a map takes the keys left in any order.
GenRangeTraversable ==
  /\ gen.at = "run"
  /\ NotExecuting /\ NotStringifying /\ UNCHANGED <<build, oracle, view>>
  /\ \E t \in gen.pending :
       gen' = [gen EXCEPT
                 !.pending = @ \ {t},
                 !.allTypes = Put(@, String(gen.types, t), t),
                 !.structs = IF gen.types[t].kind = Struct
                             THEN Put(@, String(gen.types, t), t) ELSE @]

\* for key := range allTemplates { sorted = append(sorted, key) }
GenRangeTemplates ==
  /\ gen.at = "run"
  /\ gen.pending = {}
  /\ NotExecuting /\ NotStringifying /\ UNCHANGED <<build, oracle, view>>
  /\ \E key \in gen.keys :
       gen' = [gen EXCEPT !.keys = @ \ {key}, !.sorted = Append(@, key)]

\* sort.Strings(sorted), then each template executed in that order into buf,
\* and buf written to the output file.
GenExecute ==
  /\ gen.at = "run"
  /\ gen.pending = {}
  /\ gen.keys = {}
  /\ NotExecuting /\ NotStringifying /\ UNCHANGED <<build, oracle, view>>
  /\ LET sorted == SortStrings(gen.sorted)
         buf == [i \in DOMAIN sorted |-> ExecuteTemplate(sorted[i], gen)]
     IN gen' = [gen EXCEPT !.sorted = sorted, !.at = "written",
                           !.outputs = Append(@, buf)]

\* The generator is run once more with the same configuration over the same
\* source.
GenAgain ==
  /\ gen.at = "written"
  /\ Len(gen.outputs) < 2
  /\ NotExecuting /\ NotStringifying /\ UNCHANGED <<build, oracle, view>>
  /\ gen' = StartGeneration(gen.types, gen.outputs)

GenNext == GenRangeTraversable \/ GenRangeTemplates \/ GenExecute \/ GenAgain

SpecGen == GenInit /\ [][GenNext]_vars

------------------------------------------------------------------------------
(* typeID over the types of one package, called for a root and a target.     *)

\* A type with a declaration, and the types made of others.
Declared(name, kind, elem) ==
  [declaration |-> name, kind |-> kind, elem |-> elem, fields |-> <<>>]
PointerType(elem) == [declaration |-> "", kind |-> Pointer, elem |-> elem, fields |-> <<>>]
SliceType(elem) == [declaration |-> "", kind |-> Slice, elem |-> elem, fields |-> <<>>]

\* type Foo struct{}; type Bar struct{}; type Walker interface{}; type Baz []Foo
\* and, from the fifth on: *Foo, []Foo, []*Foo, *[]Foo, **Foo, [][]Foo, *Bar,
\* []Walker, *Baz, struct{}, *struct{}, []*struct{}.
TokenTypes ==
  << Declared("Foo", Struct, 0), Declared("Bar", Struct, 0),
     Declared("Walker", Interface, 0), Declared("Baz", Slice, 1),
     PointerType(1), SliceType(1), SliceType(5), PointerType(6), PointerType(5),
     SliceType(6), PointerType(2), SliceType(3), PointerType(4),
     [declaration |-> "", kind |-> Struct, elem |-> 0, fields |-> <<>>],
     PointerType(14), SliceType(15) >>

\* The types that have a declaration: what a root is.
TokenRoots == {t \in DOMAIN TokenTypes : TokenTypes[t].declaration # ""}

\* typeID(root, target) about to be called.
TokenInit ==
  /\ \E root \in TokenRoots, target \in DOMAIN TokenTypes :
       gen = [at |-> "typeID", types |-> TokenTypes, root |-> root, target |-> target,
              ret |-> ""]
  /\ build = Built
  /\ str = NoStringify
  /\ oracle = NoOracle
  /\ view = NoView
  /\ mem = <<>>
  /\ mem0 = <<>>
  /\ stack = <<>>
  /\ pc = "typeID"
  /\ halting = FALSE
  /\ returning = NoFrame
  /\ result = [retType |-> 0, ret |-> Nil, changed |-> FALSE, err |-> NoErr]
  /\ log = <<>>
  /\ entered = <<>>
  /\ allocs = {}
  /\ sched = OneCall

\* "TypeID": func(t *ts.T) TypeID { return typeID(root, t) }
TypeIDCall ==
  /\ gen.at = "typeID"
  /\ NotExecuting /\ NotStringifying /\ UNCHANGED <<build, oracle, view>>
  /\ gen' = [gen EXCEPT !.ret = typeID(gen.types, gen.root, gen.target, ""),
                        !.at = "named"]

TokenNext == TypeIDCall

SpecToken == TokenInit /\ [][TokenNext]_vars

------------------------------------------------------------------------------
(* newGeneration: the check of the generator's configuration.                *)

\* config: the lists of type names, union names, output files and directories
\* the generator is configured with here.
ConfigTypeNames ==
  {<<>>, <<"Foo">>, <<"Bar">>, <<"Foo", "Bar">>, <<"Foo", "Bar", "Baz">>}
ConfigUnions == {"", "Union"}
ConfigOutFiles == {"", "-", "out.go"}
ConfigDirs == {".", "demo"}

Configs ==
  [dir : ConfigDirs, outFile : ConfigOutFiles, reachable : BOOLEAN,
   typeNames : ConfigTypeNames, union : ConfigUnions]

\* Only the number of type names checked against the union name.
newGenerationReachableUnchecked(cfg) ==
  IF Len(cfg.typeNames) > 1 /\ cfg.union = ""
  THEN [g |-> Nil, err |-> "multiple input types can only be used with --union"]
  ELSE [g |-> [config |-> cfg], err |-> NoErr]

\* func newGeneration(cfg config) (*generation, error)
newGeneration(cfg) ==
  IF Len(cfg.typeNames) > 1 /\ cfg.union = ""
  THEN [g |-> Nil, err |-> "multiple input types can only be used with --union"]
  ELSE IF cfg.reachable /\ cfg.union = ""
  THEN [g |-> Nil, err |-> "--reachable can only be used with --union"]
  ELSE [g |-> [config |-> cfg], err |-> NoErr]

\* newGeneration about to be called with a configuration.
ConfigInit ==
  /\ \E cfg \in Configs : gen = [at |-> "newGeneration", cfg |-> cfg, g |-> Nil, err |-> NoErr]
  /\ build = Built
  /\ str = NoStringify
  /\ oracle = NoOracle
  /\ view = NoView
  /\ mem = <<>>
  /\ mem0 = <<>>
  /\ stack = <<>>
  /\ pc = "newGeneration"
  /\ halting = FALSE
  /\ returning = NoFrame
  /\ result = [retType |-> 0, ret |-> Nil, changed |-> FALSE, err |-> NoErr]
  /\ log = <<>>
  /\ entered = <<>>
  /\ allocs = {}
  /\ sched = OneCall

\* g, err := newGeneration(cfg)
NewGenerationCall ==
  /\ gen.at = "newGeneration"
  /\ NotExecuting /\ NotStringifying /\ UNCHANGED <<build, oracle, view>>
  /\ LET r == newGeneration(gen.cfg)
     IN gen' = [gen EXCEPT !.g = r.g, !.err = r.err, !.at = "configured"]

ConfigNext == NewGenerationCall

SpecConfig == ConfigInit /\ [][ConfigNext]_vars

------------------------------------------------------------------------------
(* A frame on its own: entered with a number of slots, its slots then set.   *)

MaxSets == 2

\* The slot counts a frame is entered with: one slot, the inline capacity, and
\* one and two slots beyond it.
SlotCounts == {1, fixedSlotCount, fixedSlotCount + 1, fixedSlotCount + 2}

\* stack.Enter: a frame of slotCount zero slots, the ones beyond the inline
\* array in an overflow buffer.
EnterFrame(intercept, slotCount) ==
  [Count |-> slotCount, Idx |-> 0, Intercept |-> intercept,
   Slots |-> [i \in 1..fixedSlotCount |-> ZeroAction],
   Overflow |-> [i \in 1..(IF slotCount > fixedSlotCount
                           THEN slotCount - fixedSlotCount ELSE 0) |-> ZeroAction]]

\* f.SetSlot(e, idx, action)
SetSlotAt(f, idx, action) == StoreSlot(f, idx, SetSlot(action))

\* The actions given to SetSlot: one naming its type by id only, one with its
\* type descriptor in place.
SlotActions ==
  {ActionVisitTypeID(TargetTypeTarget, 1),
   ActionVisitReplace(TargetTypeContainerType, 2, TargetTypeContainerType)}

FrameInit ==
  /\ \E n \in SlotCounts : stack = <<EnterFrame(NoFn, n)>>
  /\ log = <<>>
  /\ pc = "frame"
  /\ mem = <<>>
  /\ mem0 = <<>>
  /\ halting = FALSE
  /\ returning = NoFrame
  /\ result = [retType |-> 0, ret |-> Nil, changed |-> FALSE, err |-> NoErr]
  /\ entered = <<>>
  /\ allocs = {}
  /\ sched = OneCall
  /\ build = Built
  /\ str = NoStringify
  /\ gen = NoGeneration
  /\ oracle = NoOracle
  /\ view = NoView

\* f.SetSlot(e, idx, action) for a slot of the frame; log keeps the calls made.
FrameSetSlot ==
  /\ pc = "frame"
  /\ Len(log) < MaxSets
  /\ \E idx \in 0..(stack[1].Count - 1), action \in SlotActions :
       /\ stack' = <<SetSlotAt(stack[1], idx, action)>>
       /\ log' = Append(log, [idx |-> idx, action |-> action])
  /\ UNCHANGED <<mem, mem0, pc, halting, returning, result, entered, allocs, sched>>
  /\ NotStringifying /\ NotGenerating /\ NotViewing /\ UNCHANGED build

FrameNext == FrameSetSlot

SpecFrame == FrameInit /\ [][FrameNext]_vars

------------------------------------------------------------------------------
(* The type Oracle.  A types.Type is an index into GoTypes and a *ts.T an     *)
(* index into oracle.ts; two indices are the same instance when they are      *)
(* equal.                                                                     *)

\* The types of a checked package and the pointer and slice types callers build
\* over them with types.NewPointer and types.NewSlice: every call of those makes
\* a new types.Type.
\*   type Target struct { Next *Target; n hidden }; type hidden int
GoTypes ==
  << [k |-> "Named", name |-> "Target", exported |-> TRUE, inScope |-> TRUE,
      elem |-> 2, fields |-> <<>>],
     [k |-> "Struct", name |-> "", exported |-> FALSE, inScope |-> FALSE, elem |-> 0,
      fields |-> << [name |-> "Next", exported |-> TRUE, typ |-> 3],
                    [name |-> "n", exported |-> FALSE, typ |-> 7] >>],
     [k |-> "Pointer", name |-> "", exported |-> FALSE, inScope |-> FALSE, elem |-> 1,
      fields |-> <<>>],
     [k |-> "Pointer", name |-> "", exported |-> FALSE, inScope |-> FALSE, elem |-> 1,
      fields |-> <<>>],
     [k |-> "Slice", name |-> "", exported |-> FALSE, inScope |-> FALSE, elem |-> 1,
      fields |-> <<>>],
     [k |-> "Slice", name |-> "", exported |-> FALSE, inScope |-> FALSE, elem |-> 1,
      fields |-> <<>>],
     [k |-> "Named", name |-> "hidden", exported |-> FALSE, inScope |-> TRUE,
      elem |-> 8, fields |-> <<>>],
     [k |-> "Basic", name |-> "int", exported |-> FALSE, inScope |-> FALSE, elem |-> 0,
      fields |-> <<>>],
     [k |-> "Pointer", name |-> "", exported |-> FALSE, inScope |-> FALSE, elem |-> 7,
      fields |-> <<>>],
     [k |-> "Pointer", name |-> "", exported |-> FALSE, inScope |-> FALSE, elem |-> 3,
      fields |-> <<>>],
     [k |-> "Pointer", name |-> "", exported |-> FALSE, inScope |-> FALSE, elem |-> 4,
      fields |-> <<>>] >>

\* scope.Names(): the declared type names of the package, sorted.
ScopeNames == <<1, 7>>

\* A nil *Traversable.
NoTraversable == [kind |-> "nil", elem |-> 0, fields |-> <<>>]

\* &T{declaration: decl}, &T{}
NewT(decl) ==
  [declaration |-> decl, pointerTo |-> 0, sliceOf |-> 0, traversable |-> NoTraversable]

\* var ignoredT *T, as init leaves it: its own pointerTo and sliceOf.
ignoredT == 1

\* PointerTo that makes a new T at every call.
PointerToAlwaysNew(o, t) ==
  [o |-> [o EXCEPT !.ts = Append(@, [NewT("") EXCEPT
                                       !.traversable =
                                         [kind |-> Pointer, elem |-> t, fields |-> <<>>]])],
   ret |-> Len(o.ts) + 1]

\* func (t *T) PointerTo() *T
PointerTo(o, t) ==
  IF o.ts[t].pointerTo = 0
  THEN [o |-> [o EXCEPT !.ts = Append([@ EXCEPT ![t].pointerTo = Len(o.ts) + 1],
                                      [NewT("") EXCEPT
                                         !.traversable =
                                           [kind |-> Pointer, elem |-> t, fields |-> <<>>]])],
        ret |-> Len(o.ts) + 1]
  ELSE [o |-> o, ret |-> o.ts[t].pointerTo]

\* func (t *T) SliceOf() *T
SliceOf(o, t) ==
  IF o.ts[t].sliceOf = 0
  THEN [o |-> [o EXCEPT !.ts = Append([@ EXCEPT ![t].sliceOf = Len(o.ts) + 1],
                                      [NewT("") EXCEPT
                                         !.traversable =
                                           [kind |-> "Slice", elem |-> t, fields |-> <<>>]])],
        ret |-> Len(o.ts) + 1]
  ELSE [o |-> o, ret |-> o.ts[t].sliceOf]

\* func (o *Oracle) Get(typ types.Type) *T, and its loop over the fields of a
\* struct from field i on: fields holds the Fields kept so far.
RECURSIVE Get(_, _)
RECURSIVE GetFields(_, _, _, _)
GetFields(o, typ, i, fields) ==
  IF i > Len(GoTypes[typ].fields) THEN [o |-> o, fields |-> fields]
  ELSE LET f == GoTypes[typ].fields[i] IN
       IF ~f.exported THEN GetFields(o, typ, i + 1, fields)
       ELSE LET field == Get(o, f.typ) IN
            GetFields(field.o, typ, i + 1,
                      IF field.ret # ignoredT
                      THEN Append(fields, [name |-> f.name, typ |-> field.ret])
                      ELSE fields)

Get(o, typ) ==
  IF typ \in DOMAIN o.data THEN [o |-> o, ret |-> o.data[typ]]
  ELSE LET t == GoTypes[typ]
           ret == Len(o.ts) + 1
       IN CASE t.k = "Pointer" -> LET e == Get(o, t.elem) IN PointerTo(e.o, e.ret)
            [] t.k = "Slice" -> LET e == Get(o, t.elem) IN SliceOf(e.o, e.ret)
            [] t.k = "Named" ->
                 IF ~t.exported \/ ~t.inScope
                 THEN [o |-> [o EXCEPT !.data = Put(@, typ, ignoredT)], ret |-> ignoredT]
                 ELSE LET under == Get([o EXCEPT !.ts = Append(@, NewT(t.name)),
                                                 !.data = Put(@, typ, ret)],
                                       t.elem)
                      IN [o |-> [under.o EXCEPT
                                   !.ts[ret].traversable = under.o.ts[under.ret].traversable],
                          ret |-> ret]
            [] t.k = "Interface" ->
                 [o |-> [o EXCEPT !.ts = Append(@, [NewT("") EXCEPT !.traversable.kind =
                                                                      "Interface"]),
                                  !.data = Put(@, typ, ret)],
                  ret |-> ret]
            [] t.k = "Struct" ->
                 LET fs == GetFields([o EXCEPT !.ts = Append(@, NewT("")),
                                               !.data = Put(@, typ, ret)],
                                     typ, 1, <<>>)
                 IN [o |-> [fs.o EXCEPT !.ts[ret].traversable =
                                          [kind |-> Struct, elem |-> 0,
                                           fields |-> fs.fields]],
                     ret |-> ret]
            [] OTHER ->
                 [o |-> [o EXCEPT !.data = Put(@, typ, ignoredT)], ret |-> ignoredT]

\* NewOracle(scopes) calls Get for every type name of every scope, from i on.
RECURSIVE NewOracle(_, _)
NewOracle(o, i) ==
  IF i > Len(ScopeNames) THEN o ELSE NewOracle(Get(o, ScopeNames[i]).o, i + 1)

OracleInit ==
  /\ oracle = NewOracle([data |-> <<>>,
                         ts |-> << [NewT("") EXCEPT !.pointerTo = ignoredT,
                                                    !.sliceOf = ignoredT] >>,
                         calls |-> {}], 1)
  /\ gen = NoGeneration
  /\ view = NoView
  /\ build = Built
  /\ str = NoStringify
  /\ mem = <<>>
  /\ mem0 = <<>>
  /\ stack = <<>>
  /\ pc = "oracle"
  /\ halting = FALSE
  /\ returning = NoFrame
  /\ result = [retType |-> 0, ret |-> Nil, changed |-> FALSE, err |-> NoErr]
  /\ log = <<>>
  /\ entered = <<>>
  /\ allocs = {}
  /\ sched = OneCall

\* A caller's o.Get(typ), for a type of the package or one built over it.
OracleGet ==
  /\ NotExecuting /\ NotStringifying /\ UNCHANGED <<build, gen, view>>
  /\ \E typ \in DOMAIN GoTypes :
       LET got == Get(oracle, typ)
       IN oracle' = [got.o EXCEPT !.calls = @ \cup {[typ |-> typ, ret |-> got.ret]}]

OracleNext == OracleGet

SpecOracle == OracleInit /\ [][OracleNext]_vars

------------------------------------------------------------------------------
(* Oracle.Get call by call, on an Oracle that has resolved nothing yet: the  *)
(* calls in progress are a stack, one frame for each call that has called    *)
(* Get and waits for it to return.                                           *)

GoNamed(name, under) ==
  [k |-> "Named", name |-> name, exported |-> TRUE, inScope |-> TRUE, elem |-> under,
   fields |-> <<>>]
GoUnexported(name, under) ==
  [k |-> "Named", name |-> name, exported |-> FALSE, inScope |-> TRUE, elem |-> under,
   fields |-> <<>>]
GoPointer(elem) ==
  [k |-> "Pointer", name |-> "", exported |-> FALSE, inScope |-> FALSE, elem |-> elem,
   fields |-> <<>>]
GoSlice(elem) ==
  [k |-> "Slice", name |-> "", exported |-> FALSE, inScope |-> FALSE, elem |-> elem,
   fields |-> <<>>]
GoStruct(fields) ==
  [k |-> "Struct", name |-> "", exported |-> FALSE, inScope |-> FALSE, elem |-> 0,
   fields |-> fields]
GoInterface ==
  [k |-> "Interface", name |-> "", exported |-> FALSE, inScope |-> FALSE, elem |-> 0,
   fields |-> <<>>]
GoBasic ==
  [k |-> "Basic", name |-> "int", exported |-> FALSE, inScope |-> FALSE, elem |-> 0,
   fields |-> <<>>]
GoField(name, exported, typ) == [name |-> name, exported |-> exported, typ |-> typ]

\* The declarations Get is called on.
\*   self:    type X struct{ Next *X; n int }
\*   mutual:  type A struct{ B *B }; type B struct{ A *A; S []A }
\*   slice:   type L []L
\*   plain:   type P struct{ N int; Q *Q; I I; h hidden }; type Q struct{}
\*            type I interface{}; type hidden int
DeclSources == {"self", "mutual", "slice", "plain"}

DeclTypes(src) ==
  CASE src = "self" ->
         <<GoNamed("X", 2),
           GoStruct(<<GoField("Next", TRUE, 3), GoField("n", FALSE, 4)>>),
           GoPointer(1), GoBasic>>
    [] src = "mutual" ->
         <<GoNamed("A", 2), GoStruct(<<GoField("B", TRUE, 3)>>), GoPointer(4),
           GoNamed("B", 5),
           GoStruct(<<GoField("A", TRUE, 6), GoField("S", TRUE, 7)>>),
           GoPointer(1), GoSlice(1)>>
    [] src = "slice" ->
         <<GoNamed("L", 2), GoSlice(1)>>
    [] src = "plain" ->
         <<GoNamed("P", 2),
           GoStruct(<<GoField("N", TRUE, 3), GoField("Q", TRUE, 4), GoField("I", TRUE, 7),
                      GoField("H", TRUE, 9)>>),
           GoBasic, GoPointer(5), GoNamed("Q", 6), GoStruct(<<>>),
           GoNamed("I", 8), GoInterface, GoUnexported("hidden", 3)>>

\* The type recorded only when Get is about to return it.
RecordNothing(o, typ, t) == o

\* o.data[typ] = ret
Record(o, typ, t) == [o EXCEPT !.data = Put(@, typ, t)]

\* ret := &T{...}: a new instance, made for the type typ.
MakeT(o, typ, t) == [o EXCEPT !.ts = Append(@, t), !.made = Append(@, typ)]

\* A call of Get returned the instance r.  Without a caller, r is what the
\* outermost Get returns.  A pointer or slice type returns r.PointerTo() or
\* r.SliceOf(); a named type takes r's traversable and returns its own instance;
\* a struct keeps r as the type of its field unless it is ignored, and goes on
\* with its next field.
RECURSIVE GetDeliver(_, _)
GetDeliver(o, r) ==
  IF o.stk = <<>> THEN [o EXCEPT !.ret = r, !.at = "returned"]
  ELSE LET top == o.stk[Len(o.stk)]
           k == DeclTypes(o.src)[top.typ].k
           popped == [o EXCEPT !.stk = SubSeq(@, 1, Len(@) - 1)]
       IN CASE k = "Pointer" ->
                 LET p == PointerTo(popped, r) IN GetDeliver(p.o, p.ret)
            [] k = "Slice" ->
                 LET s == SliceOf(popped, r) IN GetDeliver(s.o, s.ret)
            [] k = "Named" ->
                 GetDeliver([popped EXCEPT !.ts[top.self].traversable = o.ts[r].traversable],
                            top.self)
            [] k = "Struct" ->
                 LET f == DeclTypes(o.src)[top.typ].fields[top.i]
                 IN [o EXCEPT !.stk[Len(o.stk)].i = top.i + 1,
                              !.stk[Len(o.stk)].fields =
                                 IF r # ignoredT
                                 THEN Append(top.fields, [name |-> f.name, typ |-> r])
                                 ELSE top.fields]

\* Get(typ) up to the call it makes, if it makes one: a type found in o.data is
\* returned; a named and a struct type are recorded before anything of theirs is
\* resolved.
GetCall(o, typ) ==
  IF typ \in DOMAIN o.data
  THEN GetDeliver([o EXCEPT !.found = @ \cup {[typ |-> typ, ret |-> o.data[typ],
                                                 open |-> {[typ |-> o.stk[l].typ, self |-> o.stk[l].self] :
                                                            l \in DOMAIN o.stk}]}],
                  o.data[typ])
  ELSE LET t == DeclTypes(o.src)[typ]
           ret == Len(o.ts) + 1
           frame == [typ |-> typ, self |-> 0, i |-> 1, fields |-> <<>>]
       IN CASE t.k \in {"Pointer", "Slice"} -> [o EXCEPT !.stk = Append(@, frame)]
            [] t.k = "Named" ->
                 IF ~t.exported \/ ~t.inScope
                 THEN GetDeliver(Record(o, typ, ignoredT), ignoredT)
                 ELSE [Record(MakeT(o, typ, NewT(t.name)), typ, ret) EXCEPT
                         !.stk = Append(@, [frame EXCEPT !.self = ret])]
            [] t.k = "Interface" ->
                 GetDeliver(Record(MakeT(o, typ, [NewT("") EXCEPT !.traversable.kind =
                                                                   "Interface"]),
                                   typ, ret),
                            ret)
            [] t.k = "Struct" ->
                 [Record(MakeT(o, typ, NewT("")), typ, ret) EXCEPT
                    !.stk = Append(@, [frame EXCEPT !.self = ret])]
            [] OTHER -> GetDeliver(Record(o, typ, ignoredT), ignoredT)

\* o.Get(typ) called on an Oracle whose data map is empty.
DeclInit ==
  /\ \E src \in DeclSources : \E typ \in DOMAIN DeclTypes(src) :
       oracle = [data |-> <<>>,
                 ts |-> << [NewT("") EXCEPT !.pointerTo = ignoredT, !.sliceOf = ignoredT] >>,
                 calls |-> {}, src |-> src, typ |-> typ, stk |-> <<>>, made |-> <<>>,
                 found |-> {}, ret |-> 0, at |-> "called"]
  /\ gen = NoGeneration
  /\ view = NoView
  /\ build = Built
  /\ str = NoStringify
  /\ mem = <<>>
  /\ mem0 = <<>>
  /\ stack = <<>>
  /\ pc = "get"
  /\ halting = FALSE
  /\ returning = NoFrame
  /\ result = [retType |-> 0, ret |-> Nil, changed |-> FALSE, err |-> NoErr]
  /\ log = <<>>
  /\ entered = <<>>
  /\ allocs = {}
  /\ sched = OneCall

NotElsewhereThanOracle ==
  NotExecuting /\ NotStringifying /\ UNCHANGED <<build, gen, view>>

\* The outermost call.
GetStart ==
  /\ oracle.at = "called"
  /\ NotElsewhereThanOracle
  /\ oracle' = GetCall([oracle EXCEPT !.at = "running"], oracle.typ)

\* o.Get(t.Elem()), o.Get(decl.Type().Underlying()): the call on top of the
\* stack is of a pointer, slice or named type.
GetElem ==
  /\ oracle.at = "running"
  /\ oracle.stk # <<>>
  /\ Len(oracle.stk) < MaxDepth
  /\ DeclTypes(oracle.src)[oracle.stk[Len(oracle.stk)].typ].k \in {"Pointer", "Slice", "Named"}
  /\ NotElsewhereThanOracle
  /\ oracle' = GetCall(oracle, DeclTypes(oracle.src)[oracle.stk[Len(oracle.stk)].typ].elem)

\* for i, j := 0, t.NumFields(); i < j; i++ : the next field of the struct on top
\* of the stack; an unexported field is passed over.
GetField ==
  /\ oracle.at = "running"
  /\ oracle.stk # <<>>
  /\ Len(oracle.stk) < MaxDepth
  /\ NotElsewhereThanOracle
  /\ LET top == oracle.stk[Len(oracle.stk)]
         t == DeclTypes(oracle.src)[top.typ]
     IN /\ t.k = "Struct"
        /\ top.i <= Len(t.fields)
        /\ IF ~t.fields[top.i].exported
           THEN oracle' = [oracle EXCEPT !.stk[Len(oracle.stk)].i = top.i + 1]
           ELSE oracle' = GetCall(oracle, t.fields[top.i].typ)

\* ret.traversable = &Traversable{fields: fields, kind: Struct}; return ret
GetStructReturn ==
  /\ oracle.at = "running"
  /\ oracle.stk # <<>>
  /\ NotElsewhereThanOracle
  /\ LET top == oracle.stk[Len(oracle.stk)]
         t == DeclTypes(oracle.src)[top.typ]
     IN /\ t.k = "Struct"
        /\ top.i > Len(t.fields)
        /\ oracle' = GetDeliver([oracle EXCEPT
                                   !.stk = SubSeq(@, 1, Len(@) - 1),
                                   !.ts[top.self].traversable =
                                      [kind |-> Struct, elem |-> 0, fields |-> top.fields]],
                                top.self)

DeclNext == GetStart \/ GetElem \/ GetField \/ GetStructReturn

\* Get is sequential code: it takes its next step whenever it has one.
SpecDecl == DeclInit /\ [][DeclNext]_vars /\ WF_vars(DeclNext)

------------------------------------------------------------------------------
(* The view of a package's types.  A type is an index into a table of the     *)
(* traversables the Oracle made for one source; a struct's fields are types   *)
(* of their own (ts.Field) whose element is the field's type.                 *)

VField(elem) == [kind |-> "Field", elem |-> elem, fields |-> <<>>]
VPointer(elem) == [kind |-> "Pointer", elem |-> elem, fields |-> <<>>]
VSlice(elem) == [kind |-> "Slice", elem |-> elem, fields |-> <<>>]
VStruct(fields) == [kind |-> "Struct", elem |-> 0, fields |-> fields]
VInterface == [kind |-> "Interface", elem |-> 0, fields |-> <<>>]
\* A type without a traversal strategy, such as int: Traversable() is nil.
VOpaque == [kind |-> "Opaque", elem |-> 0, fields |-> <<>>]

\* The sources the view is taken of, each with the type the view is seeded with.
\*   list:    type X struct{ Next *X }                                  seed X
\*   mutual:  type I interface{ M() }; type X struct{ A *Y }; type Y struct{ B *X }
\*            func (X) M(); func (Y) M()                                seed I
\*   plain:   type I interface{ M() }; type Wrap struct{ L *Leaf; S []Leaf; N int }
\*            type Leaf struct{}; func (Wrap) M(); func (Leaf) M()      seed I
\*   byref:   type I interface{ M() }; type R struct{}; func (*R) M()   seed I
ViewSources == {"list", "mutual", "plain", "byref"}

ViewTypes(src) ==
  CASE src = "list" ->
         <<VStruct(<<2>>), VField(3), VPointer(1)>>
    [] src = "mutual" ->
         <<VInterface, VStruct(<<4>>), VStruct(<<6>>), VField(5), VPointer(3),
           VField(7), VPointer(2)>>
    [] src = "plain" ->
         <<VInterface, VStruct(<<4, 6, 8>>), VStruct(<<>>), VField(5), VPointer(3),
           VField(7), VSlice(3), VField(9), VOpaque>>
    [] src = "byref" ->
         <<VInterface, VPointer(3), VStruct(<<>>)>>

\* v.Visitable after NewView's first loop: what shouldVisitFrom(seed, t) gives
\* for the declared types t; the pointer type when only the pointer implements
\* the seed.
ViewVisitable(src) ==
  CASE src = "list" -> {1}
    [] src = "mutual" -> {1, 2, 3}
    [] src = "plain" -> {1, 2, 3}
    [] src = "byref" -> {1, 2}

\* The interface among the visitable types, if any: the key of v.Interfaces.
ViewInterface(src) == IF src = "list" THEN 0 ELSE 1

\* The orders a range over a map with the keys S may take.
Orders(S) ==
  {o \in [1..Cardinality(S) -> S] : \A i, j \in DOMAIN o : o[i] = o[j] => i = j}

\* v.Interfaces[intf] after the second loop: every visitable type, shouldVisitFrom
\* (intf, visitable) holding for each, in the order the range over v.Visitable
\* took.
ViewImplementors(src) ==
  IF ViewInterface(src) = 0 THEN {<<>>} ELSE Orders(ViewVisitable(src))

Unset == "unset"

\* The entries of the map `into` (temp): unset, false or true.
Recorded(b) == IF b THEN "true" ELSE "false"

\* What the switch on tr.Kind() ranges over for the type t.
ChaseEdges(vw, t) ==
  LET ty == ViewTypes(vw.src)[t]
  IN CASE ty.kind \in {"Field", "Slice", "Pointer"} -> <<ty.elem>>
       [] ty.kind = "Interface" -> vw.impls
       [] ty.kind = "Struct" -> ty.fields

\* A call of chaseTraversable returned r to the call that made it, which is at
\* the head of its edges: ret = r for the kinds with an element,
\* ret = r || ret for a struct and an interface.
ChaseDeliver(st, r) ==
  IF st = <<>> THEN st
  ELSE LET top == st[Len(st)]
       IN [st EXCEPT ![Len(st)] =
             [top EXCEPT !.ret = IF top.assign THEN r ELSE (r \/ top.ret),
                         !.edges = Tail(top.edges)]]

\* chaseTraversable(v, t, into) up to its switch: an entry of `into` is the
\* answer; otherwise false is stored to break cycles, a type without a traversal
\* strategy returns false, and ret starts as whether t is visitable.
ChaseCall(vw, t) ==
  IF vw.into[t] # Unset
  THEN [vw EXCEPT !.stack = ChaseDeliver(vw.stack, vw.into[t] = Recorded(TRUE))]
  ELSE LET into1 == [vw.into EXCEPT ![t] = Recorded(FALSE)]
       IN IF ViewTypes(vw.src)[t].kind = "Opaque"
          THEN [vw EXCEPT !.into = into1, !.stack = ChaseDeliver(vw.stack, FALSE)]
          ELSE [vw EXCEPT
                  !.into = into1,
                  !.stack = Append(vw.stack,
                              [t |-> t,
                               ret |-> t \in ViewVisitable(vw.src),
                               assign |-> ViewTypes(vw.src)[t].kind
                                            \in {"Field", "Slice", "Pointer"},
                               edges |-> ChaseEdges(vw, t)])]

\* NewView with the first two loops done and temp empty.
StartView(src, impls, pass, first) ==
  [src |-> src, impls |-> impls, into |-> [t \in DOMAIN ViewTypes(src) |-> Unset],
   stack |-> <<>>, roots |-> ViewVisitable(src), traversable |-> {},
   pass |-> pass, first |-> first, at |-> "chasing"]

ViewInit ==
  /\ \E src \in ViewSources : \E impls \in ViewImplementors(src) :
       view = StartView(src, impls, 1, <<>>)
  /\ build = Built
  /\ str = NoStringify
  /\ gen = NoGeneration
  /\ oracle = NoOracle
  /\ mem = <<>>
  /\ mem0 = <<>>
  /\ stack = <<>>
  /\ pc = "view"
  /\ halting = FALSE
  /\ returning = NoFrame
  /\ result = [retType |-> 0, ret |-> Nil, changed |-> FALSE, err |-> NoErr]
  /\ log = <<>>
  /\ entered = <<>>
  /\ allocs = {}
  /\ sched = OneCall

NotElsewhere ==
  NotExecuting /\ NotStringifying /\ NotGenerating /\ UNCHANGED build

\* for visitable := range ret.Visitable { chaseTraversable(ret, visitable, temp) }:
\* the next key the range gives.
ViewChaseRoot ==
  /\ view.at = "chasing"
  /\ view.stack = <<>>
  /\ NotElsewhere
  /\ \E r \in view.roots :
       view' = ChaseCall([view EXCEPT !.roots = @ \ {r}], r)

\* The call on top of the stack chases its next edge.
ChaseEnter ==
  /\ view.at = "chasing"
  /\ view.stack # <<>>
  /\ view.stack[Len(view.stack)].edges # <<>>
  /\ NotElsewhere
  /\ view' = ChaseCall(view, Head(view.stack[Len(view.stack)].edges))

\* into[t] = ret; return ret
ChaseReturn ==
  /\ view.at = "chasing"
  /\ view.stack # <<>>
  /\ view.stack[Len(view.stack)].edges = <<>>
  /\ NotElsewhere
  /\ LET top == view.stack[Len(view.stack)]
     IN view' = [view EXCEPT
                   !.into[top.t] = Recorded(top.ret),
                   !.stack = ChaseDeliver(SubSeq(view.stack, 1, Len(view.stack) - 1),
                                          top.ret)]

\* for t, ok := range temp { if ok { ret.Traversable[t] = t.Traversable() } },
\* added to the entries the first loop made for the visitable types.
ViewReturn ==
  /\ view.at = "chasing"
  /\ view.stack = <<>>
  /\ view.roots = {}
  /\ NotElsewhere
  /\ view' = [view EXCEPT
                !.traversable = ViewVisitable(view.src)
                                  \cup {t \in DOMAIN view.into : view.into[t] = Recorded(TRUE)},
                !.at = "done"]

\* NewView called once more on the same Oracle with the same seed.
ViewAgain ==
  /\ view.at = "done"
  /\ view.pass = 1
  /\ NotElsewhere
  /\ \E impls \in ViewImplementors(view.src) :
       view' = StartView(view.src, impls, 2, view.into)

ViewNext == ViewChaseRoot \/ ChaseEnter \/ ChaseReturn \/ ViewReturn \/ ViewAgain

SpecView == ViewInit /\ [][ViewNext]_vars

------------------------------------------------------------------------------
(* TraversableSet.ShouldTraverse over the same tables of types. *)

\* The kinds that implement Elementary: Field, Pointer and Slice.
Elementary == {"Field", "Pointer", "Slice"}

\* A false returned through a struct as through a type with an element: the
\* struct's remaining fields are not tried.
RECURSIVE SetDeliverFirstField(_, _)
SetDeliverFirstField(vw, r) ==
  IF vw.stack = <<>> \/ r
  THEN [vw EXCEPT !.stack = <<>>, !.result = Recorded(r), !.at = "done"]
  ELSE SetDeliverFirstField([vw EXCEPT !.stack = SubSeq(@, 1, Len(@) - 1)], r)

\* A call of shouldTraverse returned r.  Without a caller, r is what
\* ShouldTraverse returns.  A type with an element returns what its element
\* returned; a struct returns true as soon as a field does and tries its next
\* field otherwise.
RECURSIVE SetDeliver(_, _)
SetDeliver(vw, r) ==
  IF vw.stack = <<>> \/ r
  THEN [vw EXCEPT !.stack = <<>>, !.result = Recorded(r), !.at = "done"]
  ELSE LET top == vw.stack[Len(vw.stack)]
       IN IF ViewTypes(vw.src)[top.t].kind \in Elementary
          THEN SetDeliver([vw EXCEPT !.stack = SubSeq(@, 1, Len(@) - 1)], r)
          ELSE [vw EXCEPT !.stack[Len(vw.stack)].edges = Tail(top.edges)]

\* s.shouldTraverse(seen, origin) up to its recursive calls.
SetCall(vw, t) ==
  LET ty == ViewTypes(vw.src)[t]
  IN IF t \in vw.s THEN SetDeliver(vw, TRUE)
     ELSE IF t \in vw.seen THEN SetDeliver(vw, FALSE)
     ELSE LET vw1 == [vw EXCEPT !.seen = @ \cup {t}]
          IN CASE ty.kind \in Elementary ->
                    [vw1 EXCEPT !.stack = Append(@, [t |-> t, edges |-> <<ty.elem>>])]
               [] ty.kind = "Struct" ->
                    [vw1 EXCEPT !.stack = Append(@, [t |-> t, edges |-> ty.fields])]
               [] OTHER -> SetDeliver(vw1, FALSE)

\* s.ShouldTraverse(origin) for a set s of types of the source and one of its
\* types: seen is a new, empty set.
SetInit ==
  /\ \E src \in ViewSources :
       \E s \in SUBSET DOMAIN ViewTypes(src), origin \in DOMAIN ViewTypes(src) :
         view = [src |-> src, s |-> s, origin |-> origin, seen |-> {}, stack |-> <<>>,
                 result |-> Unset, at |-> "called"]
  /\ build = Built
  /\ str = NoStringify
  /\ gen = NoGeneration
  /\ oracle = NoOracle
  /\ mem = <<>>
  /\ mem0 = <<>>
  /\ stack = <<>>
  /\ pc = "set"
  /\ halting = FALSE
  /\ returning = NoFrame
  /\ result = [retType |-> 0, ret |-> Nil, changed |-> FALSE, err |-> NoErr]
  /\ log = <<>>
  /\ entered = <<>>
  /\ allocs = {}
  /\ sched = OneCall

\* return s.shouldTraverse(make(TraversableSet), origin)
SetStart ==
  /\ view.at = "called"
  /\ NotElsewhere
  /\ view' = SetCall([view EXCEPT !.at = "running"], view.origin)

\* The call on top of the stack goes into its element or its next field.
SetEnter ==
  /\ view.at = "running"
  /\ view.stack # <<>>
  /\ view.stack[Len(view.stack)].edges # <<>>
  /\ NotElsewhere
  /\ view' = SetCall(view, Head(view.stack[Len(view.stack)].edges))

\* The struct on top of the stack has tried all its fields: return false.
SetReturn ==
  /\ view.at = "running"
  /\ view.stack # <<>>
  /\ view.stack[Len(view.stack)].edges = <<>>
  /\ NotElsewhere
  /\ view' = SetDeliver([view EXCEPT !.stack = SubSeq(@, 1, Len(@) - 1)], FALSE)

SetNext == SetStart \/ SetEnter \/ SetReturn

\* ShouldTraverse is sequential code: it takes its next step whenever it has one.
SpecSet == SetInit /\ [][SetNext]_vars /\ WF_vars(SetNext)

------------------------------------------------------------------------------
(* Vocabulary of the properties. *)

Done == pc = "done"

IsPrefix(p, q) == Len(p) <= Len(q) /\ SubSeq(q, 1, Len(p)) = p
\* q is the position of a slot below the slot at position p.
Below(p, q) == Len(p) < Len(q) /\ IsPrefix(p, q)

Visits == {i \in DOMAIN log : log[i].kind = "visit"}
Descents == {i \in DOMAIN log : log[i].kind \in {"visit", "intercept"}}
PostCalls == {i \in DOMAIN log : log[i].kind = "post"}
Errors == {i \in DOMAIN log : log[i].d.err # NoErr}
Replacing == {i \in DOMAIN log : log[i].d.replacement # Nil}

\* Every callback so far was the walker function returning the zero decision.
AllContinue == \A i \in DOMAIN log : log[i].kind = "visit" /\ log[i].d = ZeroDecision

\* Exactly one decision replaced a node, it was the walker function's, and every
\* other decision was the zero decision.
OneReplace ==
  /\ Cardinality(Replacing) = 1
  /\ \A i \in DOMAIN log :
       /\ log[i].kind = "visit"
       /\ \/ log[i].d = ZeroDecision
          \/ log[i].d = DecisionReplace(ZeroDecision, log[i].typeID, log[i].d.replacement)

TheReplace == CHOOSE i \in DOMAIN log : log[i].d.replacement # Nil

\* The value of type id at hN in mem equals the value at hO in mem0, except that
\* the slot at position p (of which p[k..] remains to be followed) holds r.
RECURSIVE Substituted(_, _, _, _, _, _)
Substituted(id, hO, hN, p, k, r) ==
  LET td == typeData(id) IN
  IF k > Len(p) THEN hN = r
  ELSE CASE td.Kind = KindStruct ->
              /\ \A o \in 0..(td.SizeOf - 1) :
                   (\A i \in DOMAIN td.Fields : td.Fields[i].Offset # o)
                     => mem[hN + o] = mem0[hO + o]
              /\ \A i \in DOMAIN td.Fields :
                   LET f == td.Fields[i] IN
                   IF i - 1 = p[k]
                   THEN Substituted(f.Target, hO + f.Offset, hN + f.Offset, p, k + 1, r)
                   ELSE mem[hN + f.Offset] = mem0[hO + f.Offset]
         [] td.Kind = KindPointer ->
              Substituted(td.Elem, mem0[hO][1], mem[hN][1], p, k + 1, r)
         [] td.Kind = KindSlice ->
              /\ mem[hN][2] = mem0[hO][2]
              /\ \A i \in 0..(mem0[hO][2] - 1) :
                   LET sz == typeData(td.Elem).SizeOf IN
                   IF i = p[k]
                   THEN Substituted(td.Elem, mem0[hO][1] + i * sz, mem[hN][1] + i * sz,
                                    p, k + 1, r)
                   ELSE mem[mem[hN][1] + i * sz] = mem0[mem0[hO][1] + i * sz]
         [] td.Kind = KindInterface ->
              /\ mem[hN][1] = mem0[hO][1]
              /\ Substituted(mem0[hO][1], mem0[hO][2], mem[hN][2], p, k + 1, r)

\* Handles of the graph handed to Execute, and handles allocated since.
Original(h) == h \in DOMAIN mem0
Fresh(h) == h \in DOMAIN mem /\ h \notin DOMAIN mem0

\* Along the position p every value of the result is freshly built and every
\* child off p is the child of the original, by handle.
RECURSIVE Shared(_, _, _, _, _)
Shared(id, hO, hN, p, k) ==
  LET td == typeData(id) IN
  IF k > Len(p) THEN TRUE
  ELSE /\ Fresh(hN)
       /\ hN # hO
       /\ CASE td.Kind = KindStruct ->
                 /\ hN \in allocs
                 /\ \A i \in DOMAIN td.Fields :
                      LET f == td.Fields[i] IN
                      IF i - 1 = p[k]
                      THEN Shared(f.Target, hO + f.Offset, hN + f.Offset, p, k + 1)
                      ELSE mem[hN + f.Offset] = mem0[hO + f.Offset]
            [] td.Kind = KindPointer ->
                 Shared(td.Elem, mem0[hO][1], mem[hN][1], p, k + 1)
            [] td.Kind = KindSlice ->
                 /\ Fresh(mem[hN][1])
                 /\ \A i \in 0..(mem0[hO][2] - 1) :
                      LET sz == typeData(td.Elem).SizeOf IN
                      IF i = p[k]
                      THEN Shared(td.Elem, mem0[hO][1] + i * sz, mem[hN][1] + i * sz,
                                  p, k + 1)
                      ELSE mem[mem[hN][1] + i * sz] = mem0[mem0[hO][1] + i * sz]
            [] td.Kind = KindInterface ->
                 Shared(mem0[hO][1], mem0[hO][2], mem[hN][2], p, k + 1)

------------------------------------------------------------------------------
(* C1..C4: the result of Execute. *)

\* C1: when every callback returned the zero decision (Continue), Execute returns
\* the root type id and the root handle it was given, changed = false and no
\* error, and the heap is as it was.
C1_NoOpInvariance ==
  (Done /\ AllContinue) =>
    /\ result = [retType |-> RootType, ret |-> RootHandle, changed |-> FALSE,
                 err |-> NoErr]
    /\ mem = mem0

\* Execute returned after an all-Continue traversal that visited three structs.
C1_Witness == Done /\ AllContinue /\ Cardinality(Visits) = 3

\* C2: when exactly one node was replaced and every other decision was Continue,
\* Execute returns changed = true, no error, and a graph that equals the original
\* with only that node substituted by the replacement: every field or element off
\* the path to it and every non-traversable field keeps its value.
C2_ReplaceResult ==
  (Done /\ OneReplace) =>
    /\ result.changed
    /\ result.err = NoErr
    /\ result.retType = RootType
    /\ Substituted(RootType, RootHandle, result.ret, log[TheReplace].path, 2,
                   log[TheReplace].d.replacement)

\* Execute returned after replacing a struct held by the interface in a slice of
\* the root: a struct, a slice and an interface value were rebuilt.
C2_Witness ==
  /\ Done /\ OneReplace
  /\ Len(log[TheReplace].path) = 4
  /\ result.changed

\* C3: when one node was replaced, every ancestor on the path from the root is a
\* freshly built value, distinct from the original ancestor, and every subtree off
\* the path is referenced by the handle it had in the original graph.
C3_StructuralSharing ==
  (Done /\ OneReplace) =>
    \/ Len(log[TheReplace].path) = 1
    \/ Shared(RootType, RootHandle, result.ret, log[TheReplace].path, 2)

\* Execute returned after replacing the struct two pointers below the root.
C3_Witness ==
  /\ Done /\ OneReplace
  /\ Len(log[TheReplace].path) = 5
  /\ result.ret # RootHandle

\* C4: Execute never writes into the graph it was given: every word of the
\* original heap holds what it held before the call, whatever the callbacks decide.
C4_InputUnmodified ==
  /\ Len(mem) >= Len(mem0)
  /\ \A a \in DOMAIN mem0 : mem[a] = mem0[a]

\* Execute returned a rebuilt root after a pointer cell was rebuilt.
C4_Witness ==
  /\ Done /\ result.changed /\ result.ret \in allocs
  /\ Cardinality(allocs) >= 3

------------------------------------------------------------------------------
(* C5..C10: flow control. *)

\* The walker function's decisions that halt.
HaltedAt == {i \in Visits : log[i].d.halt}

\* The post callbacks pending when event i happened: the decisions up to i that
\* registered one for the slot of event i or for a slot above it.
PendingPosts(i) ==
  {k \in 1..i : /\ log[k].kind = "visit"
                /\ log[k].d.post # NoFn
                /\ IsPrefix(log[k].path, log[i].path)}

\* The invocations of the post callback of the slot of event k.
PostsOf(k) == {j \in PostCalls : log[j].path = log[k].path}

C6_ErrorAborts ==
  \A i \in Errors :
    /\ i = Len(log)
    /\ pc = "done"
    /\ result = [retType |-> 0, ret |-> Nil, changed |-> FALSE, err |-> log[i].d.err]

\* Execute returned an error from the walker function below a struct whose post
\* callback was registered and never invoked, after another node was replaced.
C6_Witness ==
  /\ Done
  /\ \E i \in Errors :
       /\ log[i].kind = "visit"
       /\ \E k \in PendingPosts(i) : k < i /\ PostsOf(k) = {}
       /\ \E j \in Replacing : j < i

\* The walker function's decisions that skip, and nothing else.
SkippedAt == {i \in Visits : log[i].d = ContextSkip}

\* The position of the slot after the slot at p in its frame.
NextSibling(p) == [p EXCEPT ![Len(p)] = @ + 1]

\* C7: after the walker function returned Skip at N, no walker function or
\* intercept is invoked on a slot below N, and the slot entered next is not below
\* N: it is the one after N in N's frame, or, N being the last of its frame, a
\* slot of a frame further down the stack.
C7_SkipStopsDescent ==
  \A i \in SkippedAt :
    /\ \A j \in Descents : ~Below(log[i].path, log[j].path)
    /\ ~Below(log[i].path, Path)
    /\ \A r \in DOMAIN entered :
         (entered[r].path = log[i].path /\ r < Len(entered)) =>
           IF log[i].path[Len(log[i].path)] + 1 < entered[r].count
           THEN entered[r + 1].path = NextSibling(log[i].path)
           ELSE Len(entered[r + 1].path) < Len(log[i].path)

\* Execute returned after a Skip at a struct that points to another struct; the
\* traversal went on with a later slot.
C7_Witness ==
  /\ Done /\ result.err = NoErr
  /\ \E i \in SkippedAt :
       /\ mem0[log[i].value][1] # Nil
       /\ \E r \in DOMAIN entered : entered[r].path = log[i].path /\ r < Len(entered)

\* The current slot's type id and handle are those of the active slot of a frame
\* further down the stack.
Revisit ==
  \E l \in DOMAIN stack :
    /\ l < Len(stack)
    /\ stack[l].Slots[stack[l].Idx + 1].value = stack[Len(stack)].Slots[CurFrame.Idx + 1].value
    /\ stack[l].Slots[stack[l].Idx + 1].typeData
         = stack[Len(stack)].Slots[CurFrame.Idx + 1].typeData

\* C8: when a visit slot is entered whose (type id, handle) is that of the active
\* slot of an ancestor frame, no callback is invoked, no frame is pushed, and the
\* traversal is at nextSlot.
C8_CycleGuard ==
  [][(pc = "enter" /\ CurSlot.call = NoFn /\ Revisit) =>
       (log' = log /\ stack' = stack /\ mem' = mem /\ pc' = "nextSlot")]_vars

\* The cycle guard has just fired: the slot was entered, matches an ancestor, no
\* callback was invoked on it, and the traversal is at nextSlot.
C8_Witness ==
  /\ pc = "nextSlot"
  /\ Revisit
  /\ entered # <<>> /\ entered[Len(entered)].path = Path
  /\ \A i \in DOMAIN log : log[i].path # Path

\* C9: with callbacks that decide Continue, Skip, Halt or Error, with or without
\* Post and Intercept, Execute eventually returns, on every graph, the ones with
\* pointer cycles included.
C9_Termination == <>(pc = "done")

\* Execute returned without error from the graph whose second struct points back
\* to the root and to itself, every callback having continued.
C9_Witness ==
  /\ Done /\ result.err = NoErr
  /\ mem0 = GraphMem("cycle")
  /\ Plain(log)
  /\ \A i \in DOMAIN log : ~log[i].d.skip /\ ~log[i].d.halt

\* The walker function's decisions that replace.
ReplacedAt == {i \in Visits : log[i].d.replacement # Nil}

\* The last replacement given for the slot at position p.
LastReplacement(p) ==
  LET is == {i \in Replacing : log[i].path = p}
  IN log[CHOOSE i \in is : \A j \in is : j <= i].d.replacement

------------------------------------------------------------------------------
(* C11..C20: actions, post callbacks, intercepts, allocation, construction. *)

\* The walker function's decisions that give the children of the node as an
\* action list in reverse declaration order, two of them at least.
ReorderedAt ==
  {i \in Visits :
     /\ log[i].d.hasActions
     /\ Len(log[i].d.actions) >= 2
     /\ Original(log[i].value)
     /\ log[i].d.actions = Reverse(ChildVisits(mem0, log[i].typeID, log[i].value))}

\* Event j is the walker function called on a unit of the action list of event i.
UnitOf(i, j) ==
  /\ log[j].kind = "visit"
  /\ Len(log[j].path) = Len(log[i].path) + 1
  /\ IsPrefix(log[i].path, log[j].path)

\* The struct at n is the original struct at o, except that the field that held
\* the child c holds the replacement r instead.
FieldReplaced(o, n, c, t, r) ==
  /\ n \in DOMAIN mem
  /\ mem[n] = (IF mem0[o][1] = c /\ t = TargetTypeContainerType THEN PtrW(r) ELSE mem0[o])
  /\ mem[n + 1] = (IF mem0[o + 1] = IfaceW(t, c) THEN IfaceW(t, r) ELSE mem0[o + 1])
  /\ mem[n + 2] = mem0[o + 2]
  /\ mem[n + ValOffset] = mem0[o + ValOffset]

\* C11: when the walker function at struct N gave its children as actions in
\* reverse order and one of them was replaced (the only replacement of the
\* traversal), the unwinding of N completes, and N's slot then holds a struct
\* with the replacement in the field of that child and every other field as it
\* was.
C11_ActionsReplace ==
  \A i \in ReorderedAt : \A j \in Replacing :
    (/\ UnitOf(i, j)
     /\ Cardinality(Replacing) = 1
     /\ Path = log[i].path
     /\ pc \in {"nextSlot", "panic"})
    => /\ pc = "nextSlot"
       /\ FieldReplaced(log[i].value, CurSlot.value, log[j].value, log[j].typeID,
                        log[j].d.replacement)

\* The walker function's decisions that carry a non-empty action list and do not
\* halt.
ActionsAt ==
  {i \in Visits : log[i].d.hasActions /\ Len(log[i].d.actions) >= 1 /\ ~log[i].d.halt}

\* The entries into the units of the action list given by event i, oldest first.
UnitEntries(i) ==
  {r \in DOMAIN entered :
     /\ Len(entered[r].path) = Len(log[i].path) + 1
     /\ IsPrefix(log[i].path, entered[r].path)}

\* The invocations of the side-effect function of the unit at position q.
CallsAt(q) == {j \in DOMAIN log : log[j].kind = "call" /\ log[j].path = q}

\* No callback gave up so far: none halted, none returned an error.
Uninterrupted == \A j \in DOMAIN log : ~log[j].d.halt /\ log[j].d.err = NoErr

\* C12: after the walker function at struct N returned Actions(a1..an), the frame
\* above N holds exactly the n units: the k-th slot entered is a(k), whether it
\* names a value or wraps a function, the units are entered in list order without
\* gaps, a function unit is invoked once, no slot for a field of N that the list
\* does not name exists, and when Execute returns without a Halt or an error all
\* n units were entered.
C12_ActionsOrdering ==
  \A i \in ActionsAt :
    LET p == log[i].path
        as == log[i].d.actions
    IN /\ (Len(stack) > Len(p) /\ IsPrefix(p, Path)) => stack[Len(p) + 1].Count = Len(as)
       /\ (Len(stack) = Len(p) + 1 /\ IsPrefix(p, Path) /\ pc = "enter") =>
            /\ CurFrame.Idx < Len(as)
            /\ CurSlot = SetSlot(as[CurFrame.Idx + 1])
       /\ \A r \in UnitEntries(i) :
            LET k == entered[r].path[Len(p) + 1]
            IN /\ k < Len(as)
               /\ entered[r].count = Len(as)
               /\ k > 0 => \E r0 \in UnitEntries(i) :
                             r0 < r /\ entered[r0].path[Len(p) + 1] = k - 1
               /\ \A r2 \in UnitEntries(i) : r2 # r => entered[r2].path # entered[r].path
               /\ Cardinality(CallsAt(entered[r].path))
                    = (IF as[k + 1].call # NoFn THEN 1 ELSE 0)
       /\ (Done /\ Uninterrupted) => Cardinality(UnitEntries(i)) = Len(as)

\* Execute returned without a Halt or an error after the walker function gave a
\* list of a side-effect function followed by a child: the function was invoked
\* and the child visited after it.
C12_Witness ==
  /\ Done /\ Uninterrupted
  /\ \E i \in ActionsAt :
       /\ Len(log[i].d.actions) = 2
       /\ log[i].d.actions[1].call # NoFn
       /\ \E c \in CallsAt(log[i].path \o <<0>>) :
            \E j \in Visits : j > c /\ log[j].path = log[i].path \o <<1>>

\* A slot below the slot of the post callback invoked as event j was replaced
\* before, and the slot itself was not.
DescendantReplaced(j) ==
  /\ \E k \in Replacing : k < j /\ Below(log[j].path, log[k].path)
  /\ \A k \in Replacing : k < j => log[k].path # log[j].path

\* C13: a post callback of a node with a replaced descendant is invoked with the
\* rebuilt node, a freshly built value that is not the one the walker function
\* was given (stated for traversals over the declared fields, without action
\* lists).
C13_PostSeesRebuilt ==
  \A j \in PostCalls :
    (DescendantReplaced(j) /\ \A i \in DOMAIN log : ~log[i].d.hasActions) =>
      /\ log[j].value \in allocs
      /\ \A v \in Visits : log[v].path = log[j].path => log[v].value # log[j].value

\* The walker function's decisions that registered a post callback.
PostRegisteredAt == {k \in Visits : log[k].d.post # NoFn}

\* C14: the post callback registered by the walker function's decision at N is
\* invoked at most once, and after that decision; every callback on a slot below
\* N happens between the decision and the post callback; every later callback on
\* a slot that is neither N nor below N (the slots that follow N, and the post
\* callbacks of the slots N is below) happens after N's post callback, so that
\* nested post callbacks fire innermost first; and when Execute has returned
\* without an error the post callback was invoked exactly once.
C14_PostOrdering ==
  \A k \in PostRegisteredAt :
    LET p == log[k].path IN
    /\ Cardinality(PostsOf(k)) <= 1
    /\ \A j \in PostsOf(k) :
         /\ j > k
         /\ log[j].fn = log[k].d.post
         /\ \A e \in DOMAIN log : Below(p, log[e].path) => (k < e /\ e < j)
    /\ \A e \in DOMAIN log :
         (e > k /\ ~IsPrefix(p, log[e].path)) => \E j \in PostsOf(k) : j < e
    /\ (Done /\ result.err = NoErr) => Cardinality(PostsOf(k)) = 1

\* Execute returned without an error after two nested post callbacks fired, the
\* inner one first, and a slot after the inner node was visited after its post.
C14_Witness ==
  /\ Done /\ result.err = NoErr
  /\ \E k1 \in PostRegisteredAt : \E k2 \in PostRegisteredAt :
       /\ Below(log[k1].path, log[k2].path)
       /\ \E j1 \in PostsOf(k1) : \E j2 \in PostsOf(k2) :
            /\ j2 < j1
            /\ \E e \in Visits : j2 < e /\ e < j1

\* The walker function was called on a struct that the struct of event v is
\* below.
HasStructAbove(v) == \E k \in Visits : Below(log[k].path, log[v].path)

\* The nearest such struct: the one the engine descended from to reach v.
NearestStructAbove(v) ==
  CHOOSE k \in Visits :
    /\ Below(log[k].path, log[v].path)
    /\ \A k2 \in Visits :
         Below(log[k2].path, log[v].path) => Len(log[k2].path) <= Len(log[k].path)

\* The intercepts that, called on an earlier slot of the frame pushed for the
\* struct of event k, replaced themselves before the slot of event v was entered.
Overrides(k, v) ==
  {e \in DOMAIN log :
     /\ log[e].kind = "intercept"
     /\ k < e /\ e < v
     /\ log[e].path # log[v].path
     /\ Len(log[e].path) = Len(log[k].path) + 1
     /\ Len(log[v].path) = Len(log[k].path) + 1
     /\ IsPrefix(log[k].path, log[e].path)
     /\ log[e].d.intercept # NoFn}

\* The intercept in force for the struct of event v.
InterceptInForce(v) ==
  IF ~HasStructAbove(v) THEN NoFn
  ELSE LET k == NearestStructAbove(v)
           ov == Overrides(k, v)
       IN IF ov = {} THEN log[k].d.intercept
          ELSE log[CHOOSE e \in ov : \A e2 \in ov : e2 <= e].d.intercept

\* The call of the walker function that is event v came right after a call of the
\* intercept fn on the same slot.
Intercepted(v, fn) ==
  /\ v > 1
  /\ log[v - 1].kind = "intercept"
  /\ log[v - 1].path = log[v].path
  /\ log[v - 1].fn = fn

\* No intercept was called on the slot of event v.
NotIntercepted(v) ==
  \A e \in DOMAIN log : log[e].kind = "intercept" => log[e].path # log[v].path

\* C15 as stated: the intercept registered by the decision at N is invoked right
\* before the walker function on every struct below N, at any depth, as long as
\* no decision in between registered an intercept.
C15_InterceptInherited ==
  \A k \in Visits : \A v \in Visits :
    (/\ log[k].d.intercept # NoFn
     /\ Below(log[k].path, log[v].path)
     /\ \A e \in DOMAIN log : (k < e /\ e < v) => log[e].d.intercept = NoFn)
    => Intercepted(v, log[k].d.intercept)

\* C15: the intercept registered by the decision at N (or the one an intercept
\* put in its place for the slots that follow in the same frame) is invoked right
\* before the walker function on every struct reached from N through pointers,
\* slices and interfaces without passing through another struct; on a struct
\* whose nearest struct ancestor registered none, and on the root, no intercept
\* is invoked.
C15_InterceptScope ==
  \A v \in Visits :
    IF InterceptInForce(v) = NoFn
    THEN NotIntercepted(v)
    ELSE Intercepted(v, InterceptInForce(v))

\* The intercept registered at a struct was invoked before the walker function on
\* the struct its pointer field leads to, and the walker function was then called
\* on a struct one level deeper without the intercept.
C15_Witness ==
  \E k \in Visits : \E v1 \in Visits : \E v2 \in Visits :
    /\ log[k].d.intercept # NoFn
    /\ Len(log[v1].path) = Len(log[k].path) + 2
    /\ Below(log[k].path, log[v1].path)
    /\ Intercepted(v1, log[k].d.intercept)
    /\ log[v1].d = ZeroDecision
    /\ log[v1 - 1].d = ZeroDecision
    /\ Below(log[v1].path, log[v2].path)
    /\ NotIntercepted(v2)

\* Every callback but event i was the walker function returning Continue.
AllOthersContinue(i) ==
  \A j \in DOMAIN log : j # i => (log[j].kind = "visit" /\ log[j].d = ZeroDecision)

\* The walker function's decisions that carry an action list without actions.
EmptyActionsAt ==
  {i \in Visits : log[i].d.hasActions /\ log[i].d.actions = <<>> /\ ~log[i].d.skip}

\* C16: a decision of the walker function at N that carries zero actions has the
\* effects of a Skip at N: no frame is pushed for N, no callback of any kind is
\* invoked on a slot below N, and the slot entered next is the one after N in N's
\* frame or, N being the last of its frame, a slot of a frame further down the
\* stack; the decision leaves N's value alone.
C16_EmptyActionsSkip ==
  \A i \in EmptyActionsAt :
    /\ \A j \in DOMAIN log : ~Below(log[i].path, log[j].path)
    /\ ~Below(log[i].path, Path)
    /\ \A r \in DOMAIN entered :
         ~Below(log[i].path, entered[r].path)
         /\ ((entered[r].path = log[i].path /\ r < Len(entered)) =>
               IF log[i].path[Len(log[i].path)] + 1 < entered[r].count
               THEN entered[r + 1].path = NextSibling(log[i].path)
               ELSE Len(entered[r + 1].path) < Len(log[i].path))
    /\ (Done /\ AllOthersContinue(i)) =>
         result = [retType |-> RootType, ret |-> RootHandle, changed |-> FALSE,
                   err |-> NoErr]

\* Execute returned after the walker function gave an empty action list at a
\* struct that points to another struct; the traversal went on with a later slot.
C16_Witness ==
  /\ Done /\ result.err = NoErr
  /\ \E i \in EmptyActionsAt :
       /\ Original(log[i].value)
       /\ mem0[log[i].value][1] # Nil
       /\ AllOthersContinue(i)
       /\ \E r \in DOMAIN entered : entered[r].path = log[i].path /\ r < Len(entered)

\* The post callbacks' decisions that skip or carry an action list.
PostDirectiveAt == {j \in PostCalls : log[j].d.skip \/ log[j].d.hasActions}

\* C17: after a post callback at N returned a decision that skips or carries
\* actions, no frame is pushed for N and no callback is invoked on a slot below
\* N any more, and the traversal goes on: when Execute has returned and no
\* callback halted or returned an error, the slot after N in N's frame, if there
\* is one, was entered after N.
C17_PostDirectiveIgnored ==
  \A j \in PostDirectiveAt :
    LET p == log[j].path IN
    /\ \A e \in DOMAIN log : e > j => ~Below(p, log[e].path)
    /\ ~Below(p, Path)
    /\ (Done /\ Uninterrupted) =>
         \A r \in DOMAIN entered :
           (entered[r].path = p /\ p[Len(p)] + 1 < entered[r].count) =>
             \E r2 \in DOMAIN entered : r2 > r /\ entered[r2].path = NextSibling(p)

\* Execute returned without a Halt or an error after the post callback of a
\* struct returned Skip; the struct was followed by another unit, which was
\* visited after that.
C17_Witness ==
  /\ Done /\ Uninterrupted
  /\ \E j \in PostDirectiveAt :
       /\ log[j].d = ContextSkip
       /\ \E e \in Visits : e > j /\ log[e].path = NextSibling(log[j].path)

\* C18: concurrent Execute calls on one Engine over a shared graph, with
\* callbacks that only read, do not interfere: the shared graph is never
\* written, and in every interleaving each call that has returned made exactly
\* the callback invocations, and returned exactly the result, of the call that
\* ran alone; a call still running has made a prefix of them.
C18_NoInterference ==
  /\ mem = mem0
  /\ allocs = {}
  /\ \A i \in Calls :
       LET mine == LocalsOf(i)
           alone == LocalsOf(Reference)
       IN /\ mine.log # <<>> => alone.pc = "done"
          /\ alone.pc = "done" => IsPrefix(mine.log, alone.log)
          /\ mine.pc = "done" => mine.log = alone.log /\ mine.result = alone.result

\* Both calls were in the middle of their traversals at once, both have
\* returned, and the traversal was cut short by a Halt after three visits.
C18_Witness ==
  /\ sched.overlapped
  /\ \A i \in Calls : LocalsOf(i).pc = "done"
  /\ sched.policy.k = "halt"
  /\ Len(LocalsOf(1).log) >= 3
  /\ LocalsOf(2).result.err = NoErr

\* The slot that the step leaves at the top of the stack.
SlotAfter == Active(stack'[Len(stack')])

\* A step that allocates is a step of unwind on a dirty slot that was not
\* replaced, and what it allocates becomes that slot's value.
AllocatesOnlyDirty ==
  allocs' # allocs =>
    /\ pc = "unwind" /\ pc' = "nextSlot"
    /\ SlotAfter.dirty /\ ~SlotAfter.replaced
    /\ allocs' = allocs \cup {SlotAfter.value}
    /\ SlotAfter.value \notin allocs
    /\ SlotAfter.value \in DOMAIN mem' /\ SlotAfter.value \notin DOMAIN mem

\* A step in which no callback replaces a value changes the heap only by
\* allocating.
HeapGrowthAccounted ==
  (mem' # mem /\ Replaces(log') = Replaces(log)) => allocs' # allocs

\* C19: a traversal in which every callback returns Continue performs no
\* reconstruction allocation and leaves the heap as it was; a reconstruction
\* allocation (new struct, new slice, new pointer cell, interface rewrap)
\* happens only in a step of unwind, on a slot that is dirty and was not
\* replaced outright, and the heap grows in no other step except by the value
\* a callback built to replace one.
C19_AllocationFree ==
  /\ [](AllContinue => allocs = {} /\ mem = mem0)
  /\ [][AllocatesOnlyDirty /\ HeapGrowthAccounted]_vars

\* Both cases in one run to completion: a traversal whose first two visits
\* returned Continue had allocated nothing, and after a later replacement the
\* unwinding rebuilt at least two dirty slots.
C19_Witness ==
  /\ Done /\ result.err = NoErr
  /\ Cardinality(allocs) >= 2
  /\ Cardinality(Replacing) = 1
  /\ \A i \in Replacing : i >= 3
  /\ \A i \in 1..2 : log[i].kind = "visit" /\ log[i].d = ZeroDecision

\* The descriptor at idx names an id that no descriptor is registered under.
Unresolved(tm, idx) ==
  \/ tm[idx].Elem # 0 /\ (tm[idx].Elem \notin DOMAIN tm \/ tm[tm[idx].Elem].TypeID = 0)
  \/ \E f \in DOMAIN tm[idx].Fields :
       LET t == tm[idx].Fields[f].Target
       IN t \notin DOMAIN tm \/ tm[t].TypeID = 0

\* Every link of the descriptor at idx is the descriptor registered under the id
\* it names.
Linked(tm, idx) ==
  /\ tm[idx].Kind \in {KindPointer, KindSlice} /\ tm[idx].Elem # 0 =>
       /\ tm[idx].elemData = tm[idx].Elem
       /\ tm[tm[idx].elemData].TypeID = tm[idx].Elem
  /\ \A f \in DOMAIN tm[idx].Fields :
       /\ tm[idx].Fields[f].targetData = tm[idx].Fields[f].Target
       /\ tm[tm[idx].Fields[f].targetData].TypeID = tm[idx].Fields[f].Target

\* C20: New does not get past a descriptor whose element id or one of whose
\* field target ids does not resolve to a registered descriptor: it stops only
\* by returning or by panicking, and it panics at such a descriptor; when New returns,
\* every pointer or slice descriptor's element link and every struct field's
\* target link is the descriptor registered under the id it names.
C20_NewLinks ==
  /\ \A idx \in DOMAIN build.m :
       (idx < build.idx /\ build.at # "panic") =>
         ~Unresolved(build.m, idx) /\ Linked(build.typeMap, idx)
  /\ build.at = "returned" =>
       \A idx \in DOMAIN build.m : ~Unresolved(build.m, idx) /\ Linked(build.typeMap, idx)
  /\ build.at = "panic" => Unresolved(build.m, build.idx)
  /\ build.at \in {"elem", "fields"} => ENABLED NewNext

\* New returned an Engine for a type map with a pointer or slice descriptor and
\* a struct descriptor with a field, all linked.
C20_Witness ==
  /\ build.at = "returned"
  /\ build.m # <<>>
  /\ \E idx \in DOMAIN build.typeMap : build.typeMap[idx].elemData # Nil
  /\ \E idx \in DOMAIN build.typeMap :
       \E f \in DOMAIN build.typeMap[idx].Fields :
         build.typeMap[idx].Fields[f].targetData # Nil

\* New panicked on a type map whose first registered descriptor is sound and
\* whose second names an id past the end of the type map.
C20_WitnessAbort ==
  /\ build.at = "panic"
  /\ build.idx = MaxTypes
  /\ build.m[build.idx].Elem = MaxTypes + 1

------------------------------------------------------------------------------
(* C21..C30 *)

\* One glyph per pointer or slice level from id, outermost first, then the
\* declared name of the first struct or interface descriptor reached; n bounds
\* the levels followed.
RECURSIVE Rendering(_, _, _)
Rendering(tm, id, n) ==
  IF id \notin DOMAIN tm \/ n = 0 THEN <<>>
  ELSE CASE tm[id].Kind \in {KindStruct, KindInterface} -> <<tm[id].Name>>
         [] tm[id].Kind = KindPointer -> <<Star>> \o Rendering(tm, tm[id].Elem, n - 1)
         [] tm[id].Kind = KindSlice -> <<Brackets>> \o Rendering(tm, tm[id].Elem, n - 1)
         [] OTHER -> <<>>

\* What Stringify returns is the rendering of its id.
StringifyOutput ==
  str.at = "returned" =>
    IF str.id = 0 THEN str.ret = <<"<NIL>">>
    ELSE /\ str.ret = Rendering(build.m, str.id, MaxLevels + 1)
         /\ str.ret[Len(str.ret)] = TypeName(str.td)
         /\ \A i \in 1..(Len(str.ret) - 1) : str.ret[i] \in {Star, Brackets}

\* Every pointer and slice descriptor of the type map names an element id.
EveryElemNamed ==
  \A id \in DOMAIN build.m :
    build.m[id].Kind \in {KindPointer, KindSlice} => build.m[id].Elem # 0

ReachesName ==
  LET r == Rendering(build.m, str.id, MaxTypes) IN
    r # <<>> /\ r[Len(r)] \notin {Star, Brackets}

\* Stringify returns for every id whose levels end at a named descriptor.
StringifyReturnsWhenNamed ==
  (str.at = "loop" /\ ReachesName) ~> (str.at = "returned")

\* Stringify does not return for the id of a slice type whose element type is
\* itself: after MaxLevels glyphs it is in its loop, at the descriptor it began at.
C21_NeverReturns ==
  /\ str.at = "loop"
  /\ Len(str.ret) = MaxLevels
  /\ build.typeMap[str.id].Kind = KindSlice
  /\ build.typeMap[str.id].Elem = str.id
  /\ str.td = str.id


\* Both runs of the generator have written their output.
BothWritten == gen.at = "written" /\ Len(gen.outputs) = 2

\* No two types of the source have the same String.
NamesDistinct ==
  \A a, b \in DOMAIN gen.types :
    String(gen.types, a) = String(gen.types, b) => a = b

\* Over a source whose types all have different names the two runs write the
\* same output.
StableWhenNamesDistinct ==
  (BothWritten /\ NamesDistinct) => gen.outputs[1] = gen.outputs[2]

\* The templates are executed in sorted key order, whatever order the range over
\* allTemplates gave their keys in.
TemplatesInSortedOrder ==
  gen.at = "written" =>
    /\ Len(gen.sorted) = Cardinality(TemplateSources)
    /\ \A i, j \in DOMAIN gen.sorted : i < j => Rank(gen.sorted[i]) < Rank(gen.sorted[j])

\* C22: the generator run twice with the same configuration over the same source
\* writes identical output: the output does not depend on the order in which the
\* maps were ranged over.
C22_OutputIsStable ==
  BothWritten => gen.outputs[1] = gen.outputs[2]

\* Two runs over the source with two anonymous struct types have written
\* different outputs.
C22_OutputsDiffer ==
  BothWritten /\ gen.types = TwoAnonymous /\ gen.outputs[1] # gen.outputs[2]


\* types.Identical for the types of GoTypes: the same type, or pointers, or
\* slices, of identical element types.
RECURSIVE Identical(_, _)
Identical(a, b) ==
  \/ a = b
  \/ /\ GoTypes[a].k = GoTypes[b].k
     /\ GoTypes[a].k \in {"Pointer", "Slice"}
     /\ Identical(GoTypes[a].elem, GoTypes[b].elem)

\* C23: Oracle.Get returns the same instance every time it is called with the
\* same type, and for separately constructed but structurally equal pointer or
\* slice types, after any sequence of earlier Get calls.
C23_Canonical ==
  \A c, d \in oracle.calls : Identical(c.typ, d.typ) => c.ret = d.ret

\* Get has answered for two separately built slices of Target and for two
\* pointers to separately built pointers to Target, with a T that is not the
\* ignored one.
C23_Witness ==
  /\ \E c, d \in oracle.calls : c.typ = 5 /\ d.typ = 6 /\ c.ret # ignoredT
  /\ \E c, d \in oracle.calls : c.typ = 10 /\ d.typ = 11 /\ c.ret # ignoredT
  /\ \E c \in oracle.calls : c.typ = 9 /\ c.ret = ignoredT

\* The structs below the value of type id at h in the graph handed to Execute, as
\* <<type id, handle>>, a struct before what it holds, fields in declared order,
\* elements in index order.  Defined on graphs without a cycle of pointers.
RECURSIVE PreOrder(_, _)
RECURSIVE PreOrderFields(_, _, _)
RECURSIVE PreOrderElems(_, _, _)
PreOrderFields(id, h, i) ==
  LET fields == typeData(id).Fields
  IN IF i > Len(fields) THEN <<>>
     ELSE PreOrder(fields[i].Target, h + fields[i].Offset) \o PreOrderFields(id, h, i + 1)

PreOrderElems(id, h, i) ==
  IF i >= mem0[h][2] THEN <<>>
  ELSE PreOrder(typeData(id).Elem, mem0[h][1] + i * typeData(typeData(id).Elem).SizeOf)
         \o PreOrderElems(id, h, i + 1)

PreOrder(id, h) ==
  CASE typeData(id).Kind = KindStruct -> <<<<id, h>>>> \o PreOrderFields(id, h, 1)
    [] typeData(id).Kind = KindPointer ->
         IF mem0[h][1] = Nil THEN <<>> ELSE PreOrder(typeData(id).Elem, mem0[h][1])
    [] typeData(id).Kind = KindSlice -> PreOrderElems(id, h, 0)
    [] typeData(id).Kind = KindInterface ->
         IF mem0[h][1] = 0 \/ mem0[h][2] = Nil THEN <<>>
         ELSE PreOrder(mem0[h][1], mem0[h][2])

\* The graph handed to Execute has no cycle of pointers.
Acyclic == mem0 # GraphMem("cycle")

\* The structs the callbacks were invoked on so far, oldest first.
Visited == [i \in DOMAIN log |-> <<log[i].typeID, log[i].value>>]

\* C24: with an all-Continue walker function on an acyclic graph, the walker
\* function is invoked exactly once for each struct per path from the root, in
\* depth-first pre-order: a struct before its descendants, the fields of a struct
\* in declared order and the elements of a slice in index order.
C24_DefaultOrder ==
  (Acyclic /\ AllContinue) =>
    /\ IsPrefix(Visited, PreOrder(RootType, RootHandle))
    /\ Done => Visited = PreOrder(RootType, RootHandle)

\* Execute returned from an all-Continue traversal of the root whose first field
\* points to a struct and whose second field holds another: the first field's
\* struct was visited before the second's.
C24_Witness ==
  /\ Done /\ AllContinue
  /\ mem0 = GraphMem("fork")
  /\ Visited = <<<<TargetTypeContainerType, 1>>, <<TargetTypeContainerType, 5>>,
                 <<TargetTypeByRefType, 9>>>>

\* Execute returned from an all-Continue traversal of a slice of three elements,
\* the last nil: the two structs were visited in index order.
C24_WitnessSlice ==
  /\ Done /\ AllContinue
  /\ mem0 = GraphMem("slice")
  /\ Visited = <<<<TargetTypeContainerType, 1>>, <<TargetTypeByRefType, 12>>,
                 <<TargetTypeContainerType, 5>>>>

\* The decisions whose replacement apply took: apply returns the error of a
\* decision that has one before it looks at the replacement.
Applied == {i \in Replacing : log[i].d.err = NoErr}

\* The slot i of frame l was unwound: control went past it, or is leaving it.
Unwound(l, i) ==
  \/ i < stack[l].Idx /\ i < stack[l].Count
  \/ i = stack[l].Idx /\ l = Len(stack) /\ pc = "nextSlot"

\* Every dirty slot that was unwound has made the slot it hangs from dirty: the
\* active slot of the frame below.
DirtyPropagated ==
  \A l \in 2..Len(stack) : \A i \in 0..(stack[l].Count - 1) :
    (Unwound(l, i) /\ Slot(stack[l], i).dirty) => Active(stack[l - 1]).dirty

\* C25: Execute returns changed = true if and only if it returns without error
\* and at least one replacement was applied to some slot during the traversal; a
\* dirty slot makes the slot above it dirty when it is unwound, and so on up to
\* the bootstrap slot, which is dirty when Execute returns.
C25_ChangedExact ==
  /\ Done => (result.changed <=> (result.err = NoErr /\ Applied # {}))
  /\ pc \in {"enter", "unwind", "nextSlot"} => DirtyPropagated
  /\ (Done /\ result.err = NoErr /\ Applied # {}) => Zero(stack[1]).dirty

\* Execute returned changed = true after a post callback replaced a struct four
\* slots below the bootstrap slot, nothing else having been replaced.
C25_Witness ==
  /\ Done /\ result.changed
  /\ Cardinality(Applied) = 1
  /\ \E i \in Applied : log[i].kind = "post" /\ Len(log[i].path) = 5

\* Execute returned changed = false and an error after a replacement was applied.
C25_WitnessError ==
  /\ Done /\ ~result.changed /\ result.err # NoErr
  /\ Applied # {}

\* The decisions that replaced a slot below the slot at position p.
ReplacedBelow(p) == {j \in Applied : Below(p, log[j].path)}

\* The slot being left was given a replacement: it holds the last one given for
\* it, which no unwinding built, and it is dirty.
ReplacementKept ==
  (pc = "nextSlot" /\ CurSlot.replaced) =>
    /\ CurSlot.value = LastReplacement(Path)
    /\ CurSlot.value \notin allocs
    /\ CurSlot.dirty

\* The unwinding of a slot that was given a replacement builds nothing.
ReplacedNotRebuilt ==
  (pc = "unwind" /\ pc' = "nextSlot" /\ Active(stack'[Len(stack')]).replaced) =>
    /\ allocs' = allocs
    /\ Len(mem') <= Len(mem) + typeData(RootType).SizeOf

\* C26: a slot that was replaced outright keeps the supplied value as it is: also
\* when a descendant of it was changed, nothing is reconstructed for it and the
\* value its parent gets from it is the supplied replacement.
C26_ReplacedKept == []ReplacementKept /\ [][ReplacedNotRebuilt]_vars

\* A struct that the intercept replaced was descended, a struct below it was
\* replaced too, and the first is being left with the intercept's replacement.
C26_Witness ==
  /\ pc = "nextSlot" /\ CurSlot.replaced
  /\ ReplacedBelow(Path) # {}
  /\ \E i \in Applied : log[i].kind = "intercept" /\ log[i].path = Path
                         /\ CurSlot.value = log[i].d.replacement

\* A struct is being left with the replacement its post callback gave after a
\* struct below it was replaced.
C26_WitnessPost ==
  /\ pc = "nextSlot" /\ CurSlot.replaced
  /\ ReplacedBelow(Path) # {}
  /\ \E i \in Applied : log[i].kind = "post" /\ log[i].path = Path
                         /\ CurSlot.value = log[i].d.replacement

\* The decisions that halt, whoever gave them.
Halting == {i \in DOMAIN log : log[i].d.halt}

\* One decision replaced a node, it was the walker function's, and a later
\* decision halted the traversal.
ReplaceThenHalt ==
  /\ Cardinality(Replacing) = 1
  /\ log[TheReplace].kind = "visit"
  /\ \E h \in Halting : h > TheReplace

\* The slots that control never reached in the frames that the halt cut short.
NeverEntered ==
  {p \in {NextSibling(entered[r].path) : r \in DOMAIN entered} :
     /\ \E r \in DOMAIN entered :
          p = NextSibling(entered[r].path) /\ p[Len(p)] < entered[r].count
     /\ \A r \in DOMAIN entered : entered[r].path # p}

PostHaltedAt == {i \in PostCalls : log[i].d.halt}

\* The post callbacks pending when the post callback of event i ran: those
\* registered for a slot above the slot of event i.
PendingAbove(i) ==
  {k \in 1..i : /\ log[k].kind = "visit"
                /\ log[k].d.post # NoFn
                /\ Below(log[k].path, log[i].path)}

\* After a post callback halted, no slot is entered and neither the walker
\* function nor an intercept is invoked.
NoEntryAfterPostHalt ==
  PostHaltedAt # {} => (entered' = entered /\ Descents' = Descents)

HandedOverAt == {e \in DOMAIN log : log[e].kind = "intercept" /\ log[e].d.intercept # NoFn}

\* q is the position of a slot after the slot at position p in the same frame.
LaterSibling(p, q) ==
  /\ Len(q) = Len(p)
  /\ SubSeq(q, 1, Len(q) - 1) = SubSeq(p, 1, Len(p) - 1)
  /\ q[Len(q)] > p[Len(p)]

\* The intercept invoked on a later slot of the frame is the one the last
\* hand-over in that frame named.
HandOverInForce ==
  \A e \in HandedOverAt : \A v \in DOMAIN log :
    (/\ log[v].kind = "intercept"
     /\ LaterSibling(log[e].path, log[v].path)
     /\ ~\E e2 \in HandedOverAt :
           e < e2 /\ e2 < v /\ LaterSibling(log[e].path, log[e2].path))
    => log[v].fn = log[e].d.intercept

\* A step in which the intercept handed over to another, and Execute went on:
\* the frame of the current slot has the new intercept, the frames below keep
\* theirs, and the intercept that was invoked on this slot was the old one.
HandOverStep ==
  (/\ pc = "enter" /\ pc' # "done"
   /\ Len(log') > Len(log)
   /\ log'[Len(log) + 1].kind = "intercept"
   /\ log'[Len(log) + 1].d.intercept # NoFn)
  => /\ stack'[Len(stack)].Intercept = log'[Len(log) + 1].d.intercept
     /\ log'[Len(log) + 1].fn = stack[Len(stack)].Intercept
     /\ \A l \in 1..(Len(stack) - 1) : stack'[l].Intercept = stack[l].Intercept

\* C30: when an intercept's decision carries an intercept, the new one replaces
\* the intercept of the frame that holds the current slot and is the one invoked
\* on the slots of that frame that follow; the frames below keep the intercept
\* they had, and the slots already processed were given the old one.
C30_InterceptHandOver == []HandOverInForce /\ [][HandOverStep]_vars

\* The intercept registered with an action list of two units handed over to
\* another at the first unit, and the other was invoked at the second.
C30_Witness ==
  \E e \in HandedOverAt : \E v \in DOMAIN log :
    /\ log[v].kind = "intercept"
    /\ LaterSibling(log[e].path, log[v].path)
    /\ log[e].fn = "icptA"
    /\ log[e].d.intercept = "icptB"
    /\ log[v].fn = "icptB"

\* The intercepts' decisions that halt.
InterceptHaltedAt == {i \in DOMAIN log : log[i].kind = "intercept" /\ log[i].d.halt}

\* The walker function's invocations on the slot of event i.
VisitsOf(i) == {j \in Visits : log[j].path = log[i].path}

\* After an intercept halted, no slot is entered and neither the walker
\* function nor an intercept is invoked.
NoEntryAfterInterceptHalt ==
  InterceptHaltedAt # {} => (entered' = entered /\ Descents' = Descents)

\* C29: when the intercept in force returned Halt at a struct, the walker function
\* is invoked on that struct exactly once, right after the intercept; no slot
\* below the struct is entered, and neither the walker function nor an intercept
\* is invoked on any other slot afterwards.
C29_InterceptHalt ==
  /\ [](\A i \in InterceptHaltedAt :
          /\ VisitsOf(i) = {i + 1}
          /\ Descents \cap ((i + 2)..Len(log)) = {}
          /\ \A r \in DOMAIN entered : ~Below(log[i].path, entered[r].path))
  /\ [][NoEntryAfterInterceptHalt]_vars

\* An intercept halted at a struct that has fields while the frame had a slot
\* left: the walker function ran on the struct, continued, and Execute returned
\* with the fields and the later slot never entered.
C29_Witness ==
  /\ Done /\ result.err = NoErr
  /\ \E i \in InterceptHaltedAt :
       /\ VisitsOf(i) = {i + 1}
       /\ log[i + 1].d = ContextContinue
       /\ Len(typeData(log[i].typeID).Fields) > 0
       /\ NextSibling(log[i].path) \in NeverEntered

------------------------------------------------------------------------------
(* C31..C40: side-effect actions, the stack, construction, the generator's   *)
(* type analysis and the frame's slot storage.                                *)

\* The invocations of side-effect functions.
SideEffectCalls == {i \in DOMAIN log : log[i].kind = "call"}

\* enter at a side-effect slot: its function is invoked, once, at the slot's
\* position, and nothing else happens; an error ends Execute.
CallStep ==
  (pc = "enter" /\ CurSlot.call # NoFn)
  => /\ Len(log') = Len(log) + 1
     /\ log'[Len(log')].kind = "call"
     /\ log'[Len(log')].fn = CurSlot.call
     /\ log'[Len(log')].path = Path
     /\ pc' \in {"unwind", "done"}
     /\ pc' = "done" => result'.err # NoErr
     /\ pc' = "unwind" => (stack' = stack /\ mem' = mem /\ halting' = halting)

\* unwind at a side-effect slot: no callback, no rebuild, the parent is not
\* marked dirty.
CallUnwind ==
  (pc = "unwind" /\ CurSlot.call # NoFn)
  => (stack' = stack /\ log' = log /\ mem' = mem /\ pc' = "nextSlot")

\* nextSlot at a side-effect slot that is not the last of its list: the next
\* action is entered.
CallAdvance ==
  (pc = "nextSlot" /\ CurSlot.call # NoFn /\ CurFrame.Idx + 1 < CurFrame.Count)
  => /\ pc' = "enter"
     /\ Len(stack') = Len(stack)
     /\ stack'[Len(stack)].Idx = CurFrame.Idx + 1

\* A side-effect slot has one invocation: of its function; no walker function,
\* intercept or post callback is invoked on it, and no slot below it is entered.
CalledOnce ==
  \A i \in SideEffectCalls :
    /\ \A j \in DOMAIN log : log[j].path = log[i].path => j = i
    /\ Cardinality({r \in DOMAIN entered : entered[r].path = log[i].path}) = 1
    /\ \A r \in DOMAIN entered : ~Below(log[i].path, entered[r].path)

\* C31: a side-effect action slot invokes its function exactly once, at its
\* position in the action list; it is given no walker function, intercept, cycle
\* check or frame of its own; unwinding it leaves the stack as it is, so the parent
\* is not marked dirty by it; and the action after it is entered next.
C31_SideEffectSlot ==
  []CalledOnce /\ [][CallStep /\ CallUnwind /\ CallAdvance]_vars

\* Execute returned unchanged and without error after a side-effect function ran
\* at the head of an action list and the walker function ran on the unit after it.
C31_Witness ==
  /\ Done /\ result.err = NoErr /\ ~result.changed
  /\ \E i \in SideEffectCalls : \E j \in Visits :
       j > i /\ log[j].path = NextSibling(log[i].path)

\* The shape of the stack: the bootstrap frame is there, no frame is empty, and
\* every frame below the top is at one of its slots.
StackShape ==
  /\ Len(stack) >= 1
  /\ stack[1].Count = 1
  /\ \A l \in DOMAIN stack : stack[l].Count >= 1
  /\ \A l \in 1..(Len(stack) - 1) : 0 <= stack[l].Idx /\ stack[l].Idx < stack[l].Count

\* A step takes at most the top frame off the stack, and never the bootstrap
\* frame.
PopsAboveBootstrap ==
  Len(stack') < Len(stack) => (Len(stack) >= 2 /\ Len(stack') = Len(stack) - 1)

\* C32: throughout Execute the stack holds at least the bootstrap frame, which is
\* never popped; every frame has at least one slot; every frame below the top has
\* 0 <= Idx < Count; and Execute returns without error only at depth 1.
C32_StackShape ==
  /\ []StackShape
  /\ []((Done /\ result.err = NoErr) => Len(stack) = 1)
  /\ [][PopsAboveBootstrap]_vars

\* Execute returned without error at depth 1 after the walker function gave an
\* empty action list for one struct and slots two levels below the root were
\* entered.
C32_Witness ==
  /\ Done /\ result.err = NoErr /\ Len(stack) = 1
  /\ \E i \in Visits : log[i].d.hasActions /\ log[i].d.actions = <<>>
  /\ \E r \in DOMAIN entered : Len(entered[r].path) >= 3

\* The (type id, handle) pair of a slot.
Pair(s) == <<s.typeData, s.value>>

\* The pairs one step below the pair p in the heap m: what enter would put in
\* the slots of the frame it pushes for p.
ChildPairs(m, p) ==
  LET td == typeData(p[1])
      v == p[2]
  IN CASE td.Kind = KindPointer ->
            IF m[v][1] = Nil THEN {} ELSE {<<td.Elem, m[v][1]>>}
       [] td.Kind = KindStruct ->
            {<<td.Fields[i].Target, v + td.Fields[i].Offset>> : i \in DOMAIN td.Fields}
       [] td.Kind = KindSlice ->
            {<<td.Elem, m[v][1] + (i - 1) * typeData(td.Elem).SizeOf>> : i \in 1..m[v][2]}
       [] td.Kind = KindInterface ->
            IF IntfType(m, v) = 0 \/ m[v][2] = Nil THEN {} ELSE {<<IntfType(m, v), m[v][2]>>}
       [] OTHER -> {}

RECURSIVE PairsFrom(_, _)
PairsFrom(m, S) ==
  LET T == S \cup UNION {ChildPairs(m, p) : p \in S}
  IN IF T = S THEN S ELSE PairsFrom(m, T)

\* The distinct (type id, handle) pairs reachable in the graph given to Execute.
ReachablePairs == PairsFrom(mem0, {<<RootType, RootHandle>>})

\* The frames beneath the top frame.
Beneath == 1..(Len(stack) - 1)

\* C33: with callbacks that never replace and never give actions, the active
\* slots of the frames beneath the top frame are pairwise distinct in
\* (type id, handle) and are pairs of the graph, so the depth of the stack is at
\* most the number of pairs reachable in the graph plus one.
C33_DepthBound ==
  /\ \A l1, l2 \in Beneath :
       l1 # l2 => Pair(Active(stack[l1])) # Pair(Active(stack[l2]))
  /\ \A l \in Beneath : Pair(Active(stack[l])) \in ReachablePairs
  /\ Len(stack) <= Cardinality(ReachablePairs) + 1

\* The cycle search has just found the current slot's pair further down a stack
\* of at least four frames.
C33_Witness ==
  /\ pc = "nextSlot"
  /\ Plain(log)
  /\ Len(stack) >= 4
  /\ \E l \in Beneath : Pair(Active(stack[l])) = Pair(CurSlot)

\* New is at work on the type map it was given.
Constructing == build.at \in {"elem", "fields"}

\* C34: New leaves the type map it was given as it was, the field lists of its
\* struct descriptors included, and a write to that type map after New returned
\* leaves the Engine's type map as it was.
C34_DefensiveCopy ==
  [][/\ Constructing => build'.m = build.m
     /\ build.at = "returned" => build'.typeMap = build.typeMap]_vars

\* What New's copy does keep apart: the descriptors themselves.  While New is at
\* work the given type map changes in nothing but the targetData of its fields,
\* and a write to a descriptor's Elem after New returned does not reach the
\* Engine.
DescriptorsCopied ==
  [][/\ Constructing =>
          \A id \in DOMAIN build.m :
            /\ [build'.m[id] EXCEPT !.Fields = <<>>] = [build.m[id] EXCEPT !.Fields = <<>>]
            /\ Len(build'.m[id].Fields) = Len(build.m[id].Fields)
            /\ \A f \in DOMAIN build.m[id].Fields :
                 build'.m[id].Fields[f].Target = build.m[id].Fields[f].Target
     /\ (build.at = "returned"
           /\ \A id \in DOMAIN build.m : build'.m[id].Fields = build.m[id].Fields)
          => build'.typeMap = build.typeMap]_vars

\* The types one edge away from t: its element, its fields, the implementors of
\* the interface.
ViewEdges(vw, t) == {ChaseEdges(vw, t)[i] : i \in DOMAIN ChaseEdges(vw, t)}

RECURSIVE ViewReach(_, _)
ViewReach(vw, S) ==
  LET T == S \cup UNION {IF ViewTypes(vw.src)[t].kind = "Opaque" THEN {}
                         ELSE ViewEdges(vw, t) : t \in S}
  IN IF T = S THEN S ELSE ViewReach(vw, T)

\* t is visitable or a visitable type is reachable from it.
LeadsToVisitable(vw, t) == ViewReach(vw, {t}) \cap ViewVisitable(vw.src) # {}

\* C35: when the chase is over, every type it recorded is marked exactly when it
\* is visitable or a visitable type is reachable from it through element,
\* implementor or field edges, and a second chase over the same types, in
\* whatever order, records what the first recorded.
C35_ChaseExact ==
  view.at = "done" =>
    /\ \A t \in DOMAIN view.into :
         view.into[t] # Unset =>
           (view.into[t] = Recorded(TRUE) <=> LeadsToVisitable(view, t))
    /\ view.pass = 2 => view.into = view.first

\* The part that does not depend on the order: the types recorded.
SameTypesRecorded ==
  (view.at = "done" /\ view.pass = 2) =>
    \A t \in DOMAIN view.into : (view.into[t] = Unset) <=> (view.first[t] = Unset)

\* No type is marked that does not lead to a visitable type.
MarkedLeadsToVisitable ==
  \A t \in DOMAIN view.into :
    view.into[t] = Recorded(TRUE) => LeadsToVisitable(view, t)

\* The types one element or field edge away from t.
SetEdges(src, t) ==
  LET ty == ViewTypes(src)[t]
  IN IF ty.kind \in Elementary THEN {ty.elem}
     ELSE IF ty.kind = "Struct" THEN {ty.fields[i] : i \in DOMAIN ty.fields}
     ELSE {}

RECURSIVE SetReach(_, _)
SetReach(src, S) ==
  LET T == S \cup UNION {SetEdges(src, t) : t \in S}
  IN IF T = S THEN S ELSE SetReach(src, T)

\* Some member of the set is reachable from the origin, the origin included.
MemberReachable == SetReach(view.src, {view.origin}) \cap view.s # {}

SetDone == view.at = "done"

\* C36: ShouldTraverse(origin) returns, and it returns true exactly when a member
\* of the set is reachable from origin, origin included, through element edges
\* (field, pointer, slice) and struct-field edges.
C36_ShouldTraverse ==
  /\ [](SetDone => (view.result = Recorded(TRUE) <=> MemberReachable))
  /\ <>SetDone

\* ShouldTraverse returned true for a struct that is on a cycle and not in the
\* set, having gone through four types or more to a member of the set.
C36_Witness ==
  /\ SetDone
  /\ view.result = Recorded(TRUE)
  /\ view.origin \notin view.s
  /\ ViewTypes(view.src)[view.origin].kind = "Struct"
  /\ view.origin \in SetReach(view.src, SetEdges(view.src, view.origin))
  /\ Cardinality(view.seen) >= 4

\* ShouldTraverse returned false on a cycle: every type of the cycle was seen and
\* none is in the set.
C36_WitnessCycle ==
  /\ SetDone
  /\ view.result = Recorded(FALSE)
  /\ view.origin \in SetReach(view.src, SetEdges(view.src, view.origin))
  /\ view.s # {}

GetReturned == oracle.at = "returned"

\* The calls of Get in progress on named and struct types are of pairwise
\* distinct types: no such type is resolved inside its own resolution.
NoTypeOpenTwice ==
  \A l1, l2 \in DOMAIN oracle.stk :
    (l1 # l2 /\ DeclTypes(oracle.src)[oracle.stk[l1].typ].k \in {"Named", "Struct"})
      => oracle.stk[l1].typ # oracle.stk[l2].typ

\* No type has had two instances made for it.
OneInstanceEach ==
  \A i, j \in DOMAIN oracle.made : oracle.made[i] = oracle.made[j] => i = j

\* A call of Get on a type that a call in progress is resolving returned the
\* instance that call had recorded.
RecursiveReferenceRecorded ==
  \A h \in oracle.found : \A f \in h.open : f.typ = h.typ => h.ret = f.self

\* C37: Get returns on self-referential and mutually recursive declarations;
\* a named or struct type is recorded before its components are resolved, so a
\* reference back to a type being resolved gets the instance already recorded:
\* no named or struct type is resolved by two calls at once and none gets a
\* second instance.
C37_GetTerminates ==
  /\ <>GetReturned
  /\ [](NoTypeOpenTwice /\ OneInstanceEach /\ RecursiveReferenceRecorded)

\* Get returned for the mutually recursive declarations after a reference back
\* to a type being resolved was answered from the data map.
C37_Witness ==
  /\ GetReturned
  /\ oracle.src = "mutual"
  /\ \E h \in oracle.found : \E f \in h.open : f.typ = h.typ /\ h.ret = f.self
  /\ oracle.ret # ignoredT

\* The suffixes of the wrappers around a declared type, the innermost first.
RECURSIVE WrapperSuffixes(_)
WrapperSuffixes(t) ==
  IF TokenTypes[t].declaration # "" THEN ""
  ELSE WrapperSuffixes(TokenTypes[t].elem)
         \o (IF TokenTypes[t].kind = Pointer THEN "Ptr" ELSE "Slice")

\* The declared type under the pointers and slices of t, 0 if there is none.
RECURSIVE DeclaredUnder(_)
DeclaredUnder(t) ==
  IF TokenTypes[t].declaration # "" THEN t
  ELSE IF TokenTypes[t].kind \in {Pointer, Slice} THEN DeclaredUnder(TokenTypes[t].elem)
  ELSE 0

TokenNamed == gen.at = "named"

\* The token of the given target under the root Walker.
WalkerToken(target, token) ==
  (TokenNamed /\ gen.root = 3 /\ gen.target = target) => gen.ret = token

\* C38: typeID names a declared type Foo <Root>TypeFoo, and a type made of
\* pointers and slices over Foo by one suffix for each of them after that name,
\* the innermost first: *Foo is FooPtr, []Foo is FooSlice, []*Foo is FooPtrSlice
\* and *[]Foo is FooSlicePtr.
C38_TypeToken ==
  /\ (TokenNamed /\ DeclaredUnder(gen.target) # 0)
       => gen.ret = TokenTypes[gen.root].declaration \o "Type"
                      \o TokenTypes[DeclaredUnder(gen.target)].declaration
                      \o WrapperSuffixes(gen.target)
  /\ WalkerToken(1, "WalkerTypeFoo")
  /\ WalkerToken(5, "WalkerTypeFooPtr")
  /\ WalkerToken(6, "WalkerTypeFooSlice")
  /\ WalkerToken(7, "WalkerTypeFooPtrSlice")
  /\ WalkerToken(8, "WalkerTypeFooSlicePtr")

\* typeID returned the token of []*Foo for the root Bar.
C38_Witness ==
  /\ TokenNamed
  /\ gen.root = 2
  /\ gen.target = 7
  /\ gen.ret = "BarTypeFooPtrSlice"

Configured == gen.at = "configured"

\* More than one type name, or reachable, without a union name.
NeedsUnion ==
  gen.cfg.union = "" /\ (Len(gen.cfg.typeNames) > 1 \/ gen.cfg.reachable)

\* C39: newGeneration returns an error and no generation when more than one type
\* name is given without a union name and when reachable is set without a union
\* name; it returns a generation of the configuration and no error otherwise.
C39_ConfigCheck ==
  Configured =>
    /\ NeedsUnion => (gen.err # NoErr /\ gen.g = Nil)
    /\ ~NeedsUnion => (gen.err = NoErr /\ gen.g = [config |-> gen.cfg])

\* newGeneration refused a configuration with one type name and reachable set
\* but no union name.
C39_Witness ==
  /\ Configured
  /\ Len(gen.cfg.typeNames) = 1
  /\ gen.cfg.reachable
  /\ gen.cfg.union = ""
  /\ gen.err # NoErr

\* The frame whose slots are set.
TheFrame == stack[1]

\* The calls of SetSlot made on the slot i.
SetsOf(i) == {k \in DOMAIN log : log[k].idx = i}

\* What the slot i holds by the calls made: the action of the last SetSlot on
\* it, with the type descriptor of its type id if it came without one, and the
\* zero action if it was never set.
Installed(i) ==
  IF SetsOf(i) = {} THEN ZeroAction
  ELSE LET k == CHOOSE k \in SetsOf(i) : \A l \in SetsOf(i) : l <= k
           a == log[k].action
       IN [a EXCEPT !.typeData = IF a.typeData = 0 THEN a.valueType ELSE a.typeData]

\* Every slot reads as what was installed in it, and is stored inline below the
\* inline capacity and in the overflow buffer, at the index less that capacity,
\* from there on.
SlotsAsArray ==
  \A i \in 0..(TheFrame.Count - 1) :
    /\ Slot(TheFrame, i) = Installed(i)
    /\ (i < 16) => TheFrame.Slots[i + 1] = Installed(i)
    /\ (i >= 16) => TheFrame.Overflow[i - 16 + 1] = Installed(i)

\* A SetSlot changes the slot it is given and no other.
SetSlotChangesOne ==
  (pc = "frame" /\ Len(log') = Len(log) + 1)
  => \A i \in 0..(TheFrame.Count - 1) :
       i # log'[Len(log')].idx => Slot(stack'[1], i) = Slot(TheFrame, i)

\* C40: a frame's slots behave as an array whatever its slot count, at or below
\* the inline capacity of 16 or beyond it: the indices below the count address
\* distinct storage, inline below 16 and in the overflow buffer at the index less
\* 16 from there on; a slot reads as the action last set in it, setting it leaves
\* every other slot as it was, and an action set without a type descriptor gets
\* the one of its type id.
C40_FrameSlots ==
  /\ [](pc = "frame" => SlotsAsArray)
  /\ [][SetSlotChangesOne]_vars

\* A frame of eighteen slots whose last inline slot and first overflow slot were
\* both set, the overflow slot with an action that came without type descriptor.
C40_Witness ==
  /\ pc = "frame"
  /\ TheFrame.Count = 18
  /\ SetsOf(15) # {} /\ SetsOf(16) # {}
  /\ Slot(TheFrame, 16).typeData = TargetTypeTarget
  /\ Slot(TheFrame, 16) # Slot(TheFrame, 15)

====
